---- MODULE Spec2Model ----
(***************************************************************************)
(* Tab Organizer: the snapshot / restore / undo subsystem.                 *)
(*                                                                         *)
(* The model covers the popup script (utils/sessionManager.js) and the     *)
(* background service worker (unnamed/part_001), both running against the  *)
(* same live browser environment (windows, tabs, tab groups) and the same  *)
(* chrome.storage.local namespace (keys `sessions` and `undoHistory`).     *)
(***************************************************************************)
EXTENDS Integers, Sequences, FiniteSets, TLC

VARIABLES
  wins,         \* live windows: sequence of window ids
  tabs,         \* live tabs, in tab-strip order: sequence of LiveTab records
  groups,       \* live tab groups: set of [id, title, color, collapsed]
  nextId,       \* next identity the browser hands out (window, tab or group)
  now,          \* Date.now()
  sessions,     \* chrome.storage.local key `sessions`
  undoHistory,  \* chrome.storage.local key `undoHistory`
  otherBytes,   \* bytes chrome.storage.local holds under every other key
  calls,        \* live-environment mutations issued by the running operation
  ret,          \* outcome of the last completed operation
  rs,           \* restoreSession's activation record
  up,           \* performUndo's activation record (popup)
  ub,           \* undoLastActionInline's activation record (service worker)
  pushed,       \* history of the pushes: every UndoEntry ever stored, in order
  lp,           \* per context, the activation record of its handler on `sessions`
  ledger,       \* history of the stored list: resolved saves, removals, last write
  unit          \* activation record of a function run on its own (validateSession,
                \* findTabByUrl, waitForTabs, one capture pass)

vars == <<wins, tabs, groups, nextId, now, sessions, undoHistory, otherBytes,
          calls, ret, rs, up, ub, pushed, lp, ledger, unit>>

(***************************************************************************)
(* Bounds of the model.                                                    *)
(***************************************************************************)
MaxTabs == 2
MaxSessions == 1
MaxClock == 2
MaxRestores == 1
MaxStored == 2
MaxPushes == 2
MaxUndos == 1
MaxReopens == 1

(***************************************************************************)
(* Program constants.                                                      *)
(***************************************************************************)
STORAGE_QUOTA == 10 * 1024 * 1024
TAB_ID_NONE == -1
MAX_UNDO == 20

(***************************************************************************)
(* Sequences.                                                              *)
(***************************************************************************)
Range(s) == {s[i] : i \in 1..Len(s)}
Last(s) == s[Len(s)]
Front(s) == SubSeq(s, 1, Len(s) - 1)

RECURSIVE Flatten(_)
Flatten(ss) == IF ss = <<>> THEN <<>> ELSE Head(ss) \o Flatten(Tail(ss))

\* Array.prototype.find: index of the first element satisfying P, 0 if none.
FindIndex(s, P(_)) ==
  IF \E i \in 1..Len(s) : P(s[i])
  THEN CHOOSE i \in 1..Len(s) : P(s[i]) /\ \A j \in 1..(i - 1) : ~P(s[j])
  ELSE 0

(***************************************************************************)
(* URLs.  A URL is kept as its scheme and what follows "://", so that      *)
(* String.prototype.startsWith('chrome://') and the normalisation of       *)
(* findTabByUrl are computed rather than assumed.  NoUrl is the absent     *)
(* (empty) url.                                                            *)
(***************************************************************************)
NoUrl == [scheme |-> "", rest |-> ""]
UrlA == [scheme |-> "https", rest |-> "mail.x.com/"]
UrlB == [scheme |-> "https", rest |-> "docs.x.com/"]
UrlInternal == [scheme |-> "chrome", rest |-> "settings/"]
Urls == {UrlA, UrlB, UrlInternal}

UrlStr(u) == IF u = NoUrl THEN "" ELSE u.scheme \o "://" \o u.rest

\* !url || url.startsWith('chrome://') || url.startsWith('chrome-extension://')
IsUnrestorable(u) ==
  u = NoUrl \/ u.scheme = "chrome" \/ u.scheme = "chrome-extension"

\* document.title of the page behind a url; the settings page has none here.
TitleOf(u) == IF u = UrlA THEN "Mail" ELSE IF u = UrlB THEN "Docs" ELSE ""

(***************************************************************************)
(* Session names: the prefix that startsWith() tests, and the rest.        *)
(***************************************************************************)
NameStr(n) == n.prefix \o n.rest
ManualName == [prefix |-> "", rest |-> "Work session"]
AutoSaveName(t) == [prefix |-> "Auto-save (", rest |-> ToString(t) \o ")"]
RecoveryName(t) == [prefix |-> "Recovery (", rest |-> ToString(t) \o ")"]

(***************************************************************************)
(* Error messages, and String.prototype.includes over them.                *)
(***************************************************************************)
ErrCannotAccess == "Cannot access storage. Check permissions."
ErrQuotaExport == "Storage quota exceeded. Please delete old sessions or export and clear."
ErrQuotaDelete == "Storage quota exceeded. Please delete old sessions."
ErrCouldNotSave == "Could not save session. Storage might be full."
ErrNotFound == "Session not found"
ErrInvalid == "Invalid or empty session"
ErrRestoreFailed == "Failed to restore session. Some tabs may be unavailable."
ErrAdapter == "adapter call failed"
ErrAdapterQuota == "QUOTA_BYTES quota exceeded"
ErrNotIterable == "groupData.tabUrls is not iterable"
NoError == ""

Includes(msg, needle) ==
  CASE needle = "Could not" -> msg = ErrCouldNotSave
    [] needle = "Storage" -> msg \in {ErrQuotaExport, ErrQuotaDelete, ErrCouldNotSave}
    [] needle = "quota" -> msg \in {ErrQuotaExport, ErrQuotaDelete, ErrAdapterQuota}
    [] needle = "QUOTA" -> msg = ErrAdapterQuota
    [] needle = "Session not found" -> msg = ErrNotFound
    [] needle = "Invalid" -> msg = ErrInvalid
    [] needle = "Failed to restore" -> msg = ErrRestoreFailed
    [] OTHER -> FALSE

(***************************************************************************)
(* JSON.stringify of the stored data.                                      *)
(***************************************************************************)
RECURSIVE JoinComma(_)
JoinComma(ss) ==
  IF ss = <<>> THEN ""
  ELSE IF Len(ss) = 1 THEN ss[1]
  ELSE ss[1] \o "," \o JoinComma(Tail(ss))

JsonArr(ss) == "[" \o JoinComma(ss) \o "]"
JsonStr(s) == "\"" \o s \o "\""
JsonBool(b) == IF b THEN "true" ELSE "false"
JsonOptNum(o) == IF o = <<>> THEN "null" ELSE ToString(o[1])
JsonKey(k, v) == JsonStr(k) \o ":" \o v

JsonTab(t) ==
  IF t.shape = "popup"
  THEN "{" \o JoinComma(<<JsonKey("url", JsonStr(UrlStr(t.url))),
                          JsonKey("title", JsonStr(t.title)),
                          JsonKey("pinned", JsonBool(t.pinned)),
                          JsonKey("active", JsonBool(t.active)),
                          JsonKey("originalGroupId", JsonOptNum(t.groupId))>>) \o "}"
  ELSE "{" \o JoinComma(<<JsonKey("id", JsonOptNum(t.id)),
                          JsonKey("url", JsonStr(UrlStr(t.url))),
                          JsonKey("title", JsonStr(t.title)),
                          JsonKey("pinned", JsonBool(t.pinned)),
                          JsonKey("active", JsonBool(t.active)),
                          JsonKey("groupId", JsonOptNum(t.groupId))>>) \o "}"

JsonWindow(w) ==
  "{" \o JoinComma(<<JsonKey("id", ToString(w.id)),
                     JsonKey("tabs", JsonArr([i \in 1..Len(w.tabs) |-> JsonTab(w.tabs[i])]))>>) \o "}"

JsonGroup(g) ==
  IF g.shape = "popup"
  THEN "{" \o JoinComma(<<JsonKey("originalId", ToString(g.id)),
                          JsonKey("title", JsonStr(g.title)),
                          JsonKey("color", JsonStr(g.color)),
                          JsonKey("collapsed", JsonBool(g.collapsed)),
                          JsonKey("tabUrls", JsonArr([i \in 1..Len(g.tabUrls) |-> JsonStr(UrlStr(g.tabUrls[i]))]))>>) \o "}"
  ELSE "{" \o JoinComma(<<JsonKey("id", ToString(g.id)),
                          JsonKey("title", JsonStr(g.title)),
                          JsonKey("color", JsonStr(g.color)),
                          JsonKey("collapsed", JsonBool(g.collapsed)),
                          JsonKey("tabIds", JsonArr([i \in 1..Len(g.tabIds) |-> ToString(g.tabIds[i])]))>>) \o "}"

JsonSession(s) ==
  "{" \o JoinComma(<<JsonKey("id", JsonStr(s.id)),
                     JsonKey("name", JsonStr(NameStr(s.name))),
                     JsonKey("timestamp", ToString(s.timestamp)),
                     JsonKey("windows", JsonArr([i \in 1..Len(s.windows) |-> JsonWindow(s.windows[i])])),
                     JsonKey("groups", JsonArr([i \in 1..Len(s.groups) |-> JsonGroup(s.groups[i])]))>>) \o "}"

JsonSessions(list) == JsonArr([i \in 1..Len(list) |-> JsonSession(list[i])])

\* estimateSessionSize: two bytes per character of the JSON text.
\* Mutant: one byte per character.
estimateSessionSizeNarrow(sessionData) == Len(JsonSession(sessionData))

estimateSessionSize(sessionData) == Len(JsonSession(sessionData)) * 2

(***************************************************************************)
(* chrome.storage.local.  The store charges each key its name and the      *)
(* JSON text of its value, and refuses a write that would pass the quota.  *)
(***************************************************************************)
SessionsBytes(list) == Len("sessions") + Len(JsonSessions(list))
BytesInUse == otherBytes + SessionsBytes(sessions)
StoreAccepts(list) == otherBytes + SessionsBytes(list) <= STORAGE_QUOTA

\* checkStorageQuota: on a failing getBytesInUse the whole quota counts as free.
checkStorageQuota(bytesFail) ==
  IF bytesFail THEN [bytesInUse |-> 0, available |-> STORAGE_QUOTA]
  ELSE [bytesInUse |-> BytesInUse, available |-> STORAGE_QUOTA - BytesInUse]

(***************************************************************************)
(* The live environment.                                                   *)
(***************************************************************************)
TabsOf(ts, w) == SelectSeq(ts, LAMBDA t : t.windowId = w)
GroupOf(gs, id) == CHOOSE g \in gs : g.id = id
LiveGroupIds(ts) == {ts[i].groupId : i \in 1..Len(ts)} \ {TAB_ID_NONE}
\* The browser drops a group when its last member leaves it.
PruneGroups(gs, ts) == {g \in gs : g.id \in LiveGroupIds(ts)}

(***************************************************************************)
(* Capture Engine, popup: saveCurrentSession lines 59-126.                 *)
(***************************************************************************)
\* Mutant: the pinned flag is not recorded.
PopupTabDataUnpinned(t) ==
  [shape |-> "popup", id |-> <<>>, url |-> t.url,
   title |-> IF t.title = "" THEN "Untitled" ELSE t.title,
   pinned |-> FALSE, active |-> t.active,
   groupId |-> IF t.groupId # TAB_ID_NONE THEN <<t.groupId>> ELSE <<>>]

PopupTabData(t) ==
  [shape |-> "popup", id |-> <<>>, url |-> t.url,
   title |-> IF t.title = "" THEN "Untitled" ELSE t.title,
   pinned |-> t.pinned, active |-> t.active,
   groupId |-> IF t.groupId # TAB_ID_NONE THEN <<t.groupId>> ELSE <<>>]

PopupGroupInfo(g) ==
  [shape |-> "popup", id |-> g.id,
   title |-> IF g.title = "" THEN "Untitled Group" ELSE g.title,
   color |-> IF g.color = "" THEN "grey" ELSE g.color,
   collapsed |-> g.collapsed, tabUrls |-> <<>>, tabIds |-> <<>>]

HasGroup(gm, id) == \E i \in 1..Len(gm) : gm[i].id = id

\* The groupMap pass over the tabs in enumeration order.  `failing` is the set
\* of group ids for which chrome.tabGroups.get rejects; `fetched` lists the
\* tabGroups.get calls made.
RECURSIVE PopupCollect(_, _, _, _, _)
PopupCollect(ts, gs, failing, gm, fetched) ==
  IF ts = <<>> THEN [groups |-> gm, fetched |-> fetched]
  ELSE
    LET t == Head(ts) IN
    IF IsUnrestorable(t.url) \/ t.groupId = TAB_ID_NONE
    THEN PopupCollect(Tail(ts), gs, failing, gm, fetched)
    ELSE
      LET fetch == ~HasGroup(gm, t.groupId)
          gm1 == IF fetch /\ t.groupId \notin failing
                 THEN Append(gm, PopupGroupInfo(GroupOf(gs, t.groupId)))
                 ELSE gm
          gm2 == [i \in 1..Len(gm1) |->
                    IF gm1[i].id = t.groupId
                    THEN [gm1[i] EXCEPT !.tabUrls = Append(@, t.url)]
                    ELSE gm1[i]]
      IN PopupCollect(Tail(ts), gs, failing, gm2,
                      IF fetch THEN Append(fetched, t.groupId) ELSE fetched)

\* Mutant: a rejected chrome.tabGroups.get ends the pass over the tabs.
RECURSIVE PopupCollectAbort(_, _, _, _, _)
PopupCollectAbort(ts, gs, failingAt, gm, fetched) ==
  IF ts = <<>> THEN [groups |-> gm, fetched |-> fetched]
  ELSE
    LET t == Head(ts) IN
    IF IsUnrestorable(t.url) \/ t.groupId = TAB_ID_NONE
    THEN PopupCollectAbort(Tail(ts), gs, failingAt, gm, fetched)
    ELSE
      LET fetch == ~HasGroup(gm, t.groupId)
          gm1 == IF fetch /\ t.id \notin failingAt
                 THEN Append(gm, PopupGroupInfo(GroupOf(gs, t.groupId)))
                 ELSE gm
          gm2 == [i \in 1..Len(gm1) |->
                    IF gm1[i].id = t.groupId
                    THEN [gm1[i] EXCEPT !.tabUrls = Append(@, t.url)]
                    ELSE gm1[i]]
      IN IF fetch /\ t.id \in failingAt
         THEN [groups |-> gm, fetched |-> Append(fetched, t.groupId)]
         ELSE PopupCollectAbort(Tail(ts), gs, failingAt, gm2,
                                IF fetch THEN Append(fetched, t.groupId) ELSE fetched)

\* The groupMap pass of lines 79-118 with each chrome.tabGroups.get call
\* rejecting or resolving on its own: `failingAt` holds the ids of the tabs
\* at which the call, if made, rejects.  PopupCollect is the case of a group
\* whose every call rejects.
RECURSIVE PopupCollectAt(_, _, _, _, _)
PopupCollectAt(ts, gs, failingAt, gm, fetched) ==
  IF ts = <<>> THEN [groups |-> gm, fetched |-> fetched]
  ELSE
    LET t == Head(ts) IN
    IF IsUnrestorable(t.url) \/ t.groupId = TAB_ID_NONE
    THEN PopupCollectAt(Tail(ts), gs, failingAt, gm, fetched)
    ELSE
      LET fetch == ~HasGroup(gm, t.groupId)
          gm1 == IF fetch /\ t.id \notin failingAt
                 THEN Append(gm, PopupGroupInfo(GroupOf(gs, t.groupId)))
                 ELSE gm
          gm2 == [i \in 1..Len(gm1) |->
                    IF gm1[i].id = t.groupId
                    THEN [gm1[i] EXCEPT !.tabUrls = Append(@, t.url)]
                    ELSE gm1[i]]
      IN PopupCollectAt(Tail(ts), gs, failingAt, gm2,
                        IF fetch THEN Append(fetched, t.groupId) ELSE fetched)

\* Mutant: every tab of the window is recorded, whatever its url.
PopupWindowDataAll(ts, w) ==
  LET mine == TabsOf(ts, w)
  IN [id |-> w, tabs |-> [i \in 1..Len(mine) |-> PopupTabData(mine[i])]]

PopupWindowData(ts, w) ==
  LET elig == SelectSeq(TabsOf(ts, w), LAMBDA t : ~IsUnrestorable(t.url))
  IN [id |-> w, tabs |-> [i \in 1..Len(elig) |-> PopupTabData(elig[i])]]

PopupCapture(name, clock, ws, ts, gs, failing) ==
  LET all == [i \in 1..Len(ws) |-> PopupWindowData(ts, ws[i])]
      ordered == Flatten([i \in 1..Len(ws) |-> TabsOf(ts, ws[i])])
  IN [id |-> ToString(clock), name |-> name, timestamp |-> clock,
      windows |-> SelectSeq(all, LAMBDA w : Len(w.tabs) > 0),
      groups |-> PopupCollect(ordered, gs, failing, <<>>, <<>>).groups]

(***************************************************************************)
(* Capture Engine, service worker: saveCurrentSessionInline lines 31-99.   *)
(***************************************************************************)
InlineTabData(t) ==
  [shape |-> "inline", id |-> <<t.id>>, url |-> t.url, title |-> t.title,
   pinned |-> t.pinned, active |-> t.active,
   groupId |-> IF t.groupId # TAB_ID_NONE THEN <<t.groupId>> ELSE <<>>]

InlineGroupInfo(g) ==
  [shape |-> "inline", id |-> g.id, title |-> g.title, color |-> g.color,
   collapsed |-> g.collapsed, tabUrls |-> <<>>, tabIds |-> <<>>]

RECURSIVE InlineCollect(_, _, _, _)
InlineCollect(ts, gs, failing, gm) ==
  IF ts = <<>> THEN gm
  ELSE
    LET t == Head(ts) IN
    IF t.groupId = TAB_ID_NONE
    THEN InlineCollect(Tail(ts), gs, failing, gm)
    ELSE
      LET gm1 == IF ~HasGroup(gm, t.groupId) /\ t.groupId \notin failing
                 THEN Append(gm, InlineGroupInfo(GroupOf(gs, t.groupId)))
                 ELSE gm
          gm2 == [i \in 1..Len(gm1) |->
                    IF gm1[i].id = t.groupId
                    THEN [gm1[i] EXCEPT !.tabIds = Append(@, t.id)]
                    ELSE gm1[i]]
      IN InlineCollect(Tail(ts), gs, failing, gm2)

InlineWindowData(ts, w) ==
  LET mine == TabsOf(ts, w)
  IN [id |-> w, tabs |-> [i \in 1..Len(mine) |-> InlineTabData(mine[i])]]

InlineCapture(name, clock, ws, ts, gs, failing) ==
  [id |-> ToString(clock), name |-> name, timestamp |-> clock,
   windows |-> [i \in 1..Len(ws) |-> InlineWindowData(ts, ws[i])],
   groups |-> InlineCollect(Flatten([i \in 1..Len(ws) |-> TabsOf(ts, ws[i])]),
                            gs, failing, <<>>)]

(***************************************************************************)
(* Durable Store: the catch blocks of saveCurrentSession.                  *)
(***************************************************************************)
\* lines 149-155: a failing get/set of `sessions`.
StorageCatch(msg) ==
  IF Includes(msg, "QUOTA") \/ Includes(msg, "quota")
  THEN ErrQuotaDelete ELSE ErrCouldNotSave

\* lines 156-162: what the caller finally sees.
SaveCatch(msg) ==
  IF Includes(msg, "Could not") \/ Includes(msg, "Storage") \/ Includes(msg, "quota")
  THEN msg ELSE ErrCouldNotSave

\* The message chrome.storage.local.set rejects with, NoError when it resolves.
SetOutcome(list, fail) ==
  IF fail = "set" THEN ErrAdapter
  ELSE IF fail = "setQuota" \/ ~StoreAccepts(list) THEN ErrAdapterQuota
  ELSE NoError

\* `clean`: no adapter or storage call of the operation was made to fail.
\* `est`: twice the length of the JSON text of the operation's snapshot;
\* `room`: quota - bytesInUse when the operation began.
\* `wrote`: the operation appended its snapshot to the stored list.
\* `fail`: for a manual save, the call that was made to fail.
Outcome(op, threw, msg, val, before, est, room, clean, wrote) ==
  [op |-> op, threw |-> threw, msg |-> msg, val |-> val, before |-> before,
   est |-> est, room |-> room, clean |-> clean, wrote |-> wrote,
   fail |-> IF clean THEN "none" ELSE "some"]

TextBytes(sessionData) == 2 * Len(JsonSession(sessionData))

SaveFailures == {"none", "probe", "getAll", "groupGet", "bytesInUse", "get", "set", "setQuota"}

\* saveCurrentSession(sessionName), lines 48-163.  The error raised inside the
\* outer try is `raised`; NoError when the call returns the new id.
SaveRaised(sessionData, fail) ==
  LET quota == checkStorageQuota(fail = "bytesInUse")
  IN IF fail = "probe" THEN ErrCannotAccess
     ELSE IF fail = "getAll" THEN ErrAdapter
     ELSE IF estimateSessionSize(sessionData) > quota.available THEN ErrQuotaExport
     ELSE IF fail = "get" THEN StorageCatch(ErrAdapter)
     ELSE IF SetOutcome(Append(sessions, sessionData), fail) # NoError
          THEN StorageCatch(SetOutcome(Append(sessions, sessionData), fail))
     ELSE NoError

saveCurrentSession(sessionName, fail) ==
  LET failing == IF fail = "groupGet" THEN LiveGroupIds(tabs) ELSE {}
      sessionData == PopupCapture(sessionName, now, wins, tabs, groups, failing)
      raised == SaveRaised(sessionData, fail)
      outcome == IF raised = NoError
                 THEN Outcome("save", FALSE, NoError, sessionData.id, sessions,
                              TextBytes(sessionData), STORAGE_QUOTA - BytesInUse,
                              fail = "none", TRUE)
                 ELSE Outcome("save", TRUE, SaveCatch(raised), "", sessions,
                              TextBytes(sessionData), STORAGE_QUOTA - BytesInUse,
                              fail = "none", FALSE)
  IN /\ sessions' = IF raised = NoError THEN Append(sessions, sessionData) ELSE sessions
     /\ ret' = [outcome EXCEPT !.fail = fail]

(***************************************************************************)
(* Retention: keep the newest maxCount snapshots of a name prefix.         *)
(***************************************************************************)
RECURSIVE InsertDesc(_, _)
InsertDesc(sorted, s) ==
  IF sorted = <<>> THEN <<s>>
  ELSE IF Head(sorted).timestamp >= s.timestamp
       THEN <<Head(sorted)>> \o InsertDesc(Tail(sorted), s)
       ELSE <<s>> \o sorted

\* Array.prototype.sort((a, b) => b.timestamp - a.timestamp): stable.
RECURSIVE SortDesc(_)
SortDesc(list) ==
  IF list = <<>> THEN <<>> ELSE InsertDesc(SortDesc(Front(list)), Last(list))

\* Mutant: a pass evicts only the oldest snapshot of the family.
PruneListOldest(list, prefix, maxCount) ==
  LET family == SortDesc(SelectSeq(list, LAMBDA s : s.name.prefix = prefix))
  IN IF Len(family) > maxCount
     THEN SelectSeq(list, LAMBDA s : Last(family).id # s.id)
     ELSE list

PruneList(list, prefix, maxCount) ==
  LET family == SortDesc(SelectSeq(list, LAMBDA s : s.name.prefix = prefix))
      toDelete == SubSeq(family, maxCount + 1, Len(family))
  IN IF Len(family) > maxCount
     THEN SelectSeq(list, LAMBDA s : \A i \in 1..Len(toDelete) : toDelete[i].id # s.id)
     ELSE list

AUTO_SAVE_KEEP == 5
RECOVERY_KEEP == 3

(***************************************************************************)
(* Service worker producers.                                               *)
(***************************************************************************)
InlineFailures == {"none", "getAll", "groupGet", "get", "set"}

\* saveCurrentSessionInline, lines 29-119: the list it leaves under `sessions`.
InlineSaved(sessionName, fail, ws, ts, gs) ==
  LET failing == IF fail = "groupGet" THEN LiveGroupIds(ts) ELSE {}
      sessionData == InlineCapture(sessionName, now, ws, ts, gs, failing)
      newList == Append(sessions, sessionData)
  IN IF fail \in {"getAll", "get"} \/ SetOutcome(newList, fail) # NoError
     THEN sessions ELSE newList

InlineEstimate(sessionName, ws, ts, gs) ==
  TextBytes(InlineCapture(sessionName, now, ws, ts, gs, {}))

\* autoSaveSession, lines 178-226: save, then keep the newest five auto-saves.
autoSaveSession(fail) ==
  LET saved == InlineSaved(AutoSaveName(now), fail, wins, tabs, groups)
      pruned == PruneList(saved, "Auto-save (", AUTO_SAVE_KEEP)
  IN /\ sessions' = pruned
     /\ ret' = Outcome("autosave", FALSE, NoError, "", sessions,
                       InlineEstimate(AutoSaveName(now), wins, tabs, groups), STORAGE_QUOTA - BytesInUse,
                       fail = "none", saved # sessions)

\* chrome.windows.onRemoved listener, lines 261-308, crash recovery enabled;
\* ws, ts, gs are the windows, tabs and groups left after the removal.
onWindowRemoved(fail, ws, ts, gs) ==
  LET saved == InlineSaved(RecoveryName(now), fail, ws, ts, gs)
      pruned == PruneList(saved, "Recovery (", RECOVERY_KEEP)
  IN IF Len(ws) > 0 /\ fail # "getAll"
     THEN /\ sessions' = pruned
          /\ ret' = Outcome("recovery", FALSE, NoError, "", sessions,
                            InlineEstimate(RecoveryName(now), ws, ts, gs), STORAGE_QUOTA - BytesInUse,
                            fail = "none", saved # sessions)
     ELSE /\ sessions' = sessions
          /\ ret' = Outcome("recovery", FALSE, NoError, "", sessions, 0,
                            STORAGE_QUOTA - BytesInUse, fail = "none", FALSE)

(***************************************************************************)
(* Restore Engine: validateSession, findTabByUrl, restoreSession.          *)
(***************************************************************************)
\* Mutant: every snapshot is accepted.
validateSessionLax(session) == TRUE

\* validateSession, lines 188-211.  Stored snapshots carry a string id, a
\* string name and a numeric timestamp by construction of the records.
validateSession(session) ==
  LET hasTabs == \E i \in 1..Len(session.windows) : Len(session.windows[i].tabs) > 0
  IN hasTabs \/ Len(session.groups) > 0

\* getAllSessions, lines 169-181: [] when the read fails.
getAllSessions(getFails) == IF getFails THEN <<>> ELSE SortDesc(sessions)

\* normalizeUrl of findTabByUrl: hostname + pathname + search; the text itself
\* when it does not parse.
normalizeUrl(u) == IF u = NoUrl THEN "" ELSE u.rest

\* t.url || t.pendingUrl || ''
UrlOrPending(t) == IF t.url # NoUrl THEN t.url ELSE t.pendingUrl

\* Mutant: the normalised comparison comes first.
findTabByUrlLoose(list, targetUrl) ==
  FindIndex(list, LAMBDA t : normalizeUrl(UrlOrPending(t)) = normalizeUrl(targetUrl))

\* findTabByUrl, lines 272-298: the index in `list` of the tab found, 0 for null.
findTabByUrl(list, targetUrl) ==
  LET exact == FindIndex(list, LAMBDA t : t.url = targetUrl)
      pending == FindIndex(list, LAMBDA t : t.pendingUrl # NoUrl /\ t.pendingUrl = targetUrl)
      fuzzy == FindIndex(list, LAMBDA t : normalizeUrl(UrlOrPending(t)) = normalizeUrl(targetUrl))
  IN IF exact # 0 THEN exact ELSE IF pending # 0 THEN pending ELSE fuzzy

Call(op, arg, ok) == [op |-> op, arg |-> arg, ok |-> ok]

\* A tab the browser has just created: its url is either committed already
\* (`settled`) or still pending.
NewTab(id, w, u, settled, active) ==
  [id |-> id, windowId |-> w,
   url |-> IF settled THEN u ELSE NoUrl,
   pendingUrl |-> IF settled THEN NoUrl ELSE u,
   title |-> IF settled THEN TitleOf(u) ELSE "",
   pinned |-> FALSE, active |-> active, groupId |-> TAB_ID_NONE]

\* chrome.tabs.update(id, {pinned: true}): the tab leaves its group and moves
\* behind the pinned tabs of its window.
PinTab(ts, id) ==
  LET i == FindIndex(ts, LAMBDA t : t.id = id)
      t == [ts[i] EXCEPT !.pinned = TRUE, !.groupId = TAB_ID_NONE]
      others == SubSeq(ts, 1, i - 1) \o SubSeq(ts, i + 1, Len(ts))
      k == FindIndex(others, LAMBDA x : x.windowId = t.windowId /\ ~x.pinned)
  IN IF i = 0 \/ ts[i].pinned THEN ts
     ELSE IF k = 0 THEN [ts EXCEPT ![i] = t]
     ELSE SubSeq(others, 1, k - 1) \o <<t>> \o SubSeq(others, k, Len(others))

\* chrome.tabs.update(id, {active: true})
ActivateTab(ts, id) ==
  LET i == FindIndex(ts, LAMBDA t : t.id = id)
  IN IF i = 0 THEN ts
     ELSE [j \in 1..Len(ts) |->
             IF ts[j].windowId = ts[i].windowId
             THEN [ts[j] EXCEPT !.active = (j = i)] ELSE ts[j]]

\* chrome.tabs.group({tabIds}): the tabs join a fresh, untitled group.
GroupTabs(ts, ids, g) ==
  [j \in 1..Len(ts) |-> IF ts[j].id \in ids THEN [ts[j] EXCEPT !.groupId = g] ELSE ts[j]]

FreshGroup(g) == [id |-> g, title |-> "", color |-> "grey", collapsed |-> FALSE]

\* lines 329-351: the window with its first tab, then the remaining tabs.
RestoreCreate(e, tabUrls, fail, settled) ==
  LET w == e.nextId
      \* the chrome.tabs.create calls that reject and are caught (345-348)
      failedAt == {i \in 2..Len(tabUrls) :
                     \/ fail = "tabCreate"
                     \/ fail = "tabCreateEven" /\ i % 2 = 0
                     \/ fail = "tabCreateOdd" /\ i % 2 = 1}
      madeAt == SelectSeq([i \in 1..Len(tabUrls) |-> i], LAMBDA i : i \notin failedAt)
      made == [k \in 1..Len(madeAt) |->
                 NewTab(w + madeAt[k], w, tabUrls[madeAt[k]], settled, madeAt[k] = 1)]
      tried == [i \in 1..Len(tabUrls) |->
                  IF i = 1 THEN Call("createWindow", w, TRUE)
                  ELSE Call("createTab", w + i, i \notin failedAt)]
  IN [e EXCEPT !.wins = Append(@, w), !.tabs = @ \o made,
               !.nextId = w + Len(tabUrls) + 1, !.calls = @ \o tried]

\* lines 356-372: pin every created tab matched to a pinned TabRecord.
RECURSIVE RestorePins(_, _, _, _)
RestorePins(e, recorded, createdTabs, fail) ==
  IF recorded = <<>> THEN e
  ELSE
    LET o == Head(recorded)
        i == findTabByUrl(createdTabs, o.url)
    IN IF o.pinned /\ i # 0
       THEN RestorePins(
              IF fail = "pin"
              THEN [e EXCEPT !.calls = Append(@, Call("pin", createdTabs[i].id, FALSE))]
              ELSE [e EXCEPT !.tabs = PinTab(@, createdTabs[i].id),
                             !.calls = Append(@, Call("pin", createdTabs[i].id, TRUE))],
              Tail(recorded), createdTabs, fail)
       ELSE RestorePins(e, Tail(recorded), createdTabs, fail)

\* lines 380-387: the live tabs a GroupRecord's tabUrls resolve to.
RECURSIVE ResolveGroupTabs(_, _)
ResolveGroupTabs(tabUrls, updatedTabs) ==
  IF tabUrls = <<>> THEN <<>>
  ELSE
    LET i == findTabByUrl(updatedTabs, Head(tabUrls))
        rest == ResolveGroupTabs(Tail(tabUrls), updatedTabs)
    IN IF i # 0 /\ ~updatedTabs[i].pinned THEN <<updatedTabs[i].id>> \o rest ELSE rest

\* Mutant: the new group keeps the browser's default attributes.
RestoreOneGroupPlain(e, groupData, groupTabIds, fail) ==
  LET g == e.nextId
      grouped == GroupTabs(e.tabs, Range(groupTabIds), g)
  IN IF fail = "group"
     THEN [e EXCEPT !.calls = Append(@, Call("group", g, FALSE))]
     ELSE [e EXCEPT !.tabs = grouped,
                    !.groups = PruneGroups(@ \cup {FreshGroup(g)}, grouped),
                    !.nextId = g + 1,
                    !.calls = @ \o <<Call("group", g, TRUE),
                                     Call("updateGroup", g, fail # "groupUpdate")>>]

\* lines 389-403: group the resolved tabs and set the group's attributes.
RestoreOneGroup(e, groupData, groupTabIds, fail) ==
  LET g == e.nextId
      grouped == GroupTabs(e.tabs, Range(groupTabIds), g)
      titled == [FreshGroup(g) EXCEPT
                   !.title = IF groupData.title = "" THEN "Restored Group" ELSE groupData.title,
                   !.color = IF groupData.color = "" THEN "grey" ELSE groupData.color,
                   !.collapsed = groupData.collapsed]
  IN IF fail = "group"
     THEN [e EXCEPT !.calls = Append(@, Call("group", g, FALSE))]
     ELSE IF fail = "groupUpdate"
     THEN [e EXCEPT !.tabs = grouped,
                    !.groups = PruneGroups(@ \cup {FreshGroup(g)}, grouped),
                    !.nextId = g + 1,
                    !.calls = @ \o <<Call("group", g, TRUE), Call("updateGroup", g, FALSE)>>]
     ELSE [e EXCEPT !.tabs = grouped,
                    !.groups = PruneGroups(@ \cup {titled}, grouped),
                    !.nextId = g + 1,
                    !.calls = @ \o <<Call("group", g, TRUE), Call("updateGroup", g, TRUE)>>]

\* lines 378-408.  Iterating the tabUrls of a GroupRecord that has none (the
\* service worker records tabIds instead) raises a TypeError outside any
\* inner try.
RECURSIVE RestoreGroups(_, _, _, _)
RestoreGroups(e, groupList, updatedTabs, fail) ==
  IF groupList = <<>> THEN [env |-> e, raised |-> NoError]
  ELSE
    LET groupData == Head(groupList)
        groupTabIds == ResolveGroupTabs(groupData.tabUrls, updatedTabs)
    IN IF groupData.shape # "popup" THEN [env |-> e, raised |-> ErrNotIterable]
       ELSE IF Len(groupTabIds) > 0
       THEN RestoreGroups(RestoreOneGroup(e, groupData, groupTabIds, fail),
                          Tail(groupList), updatedTabs, fail)
       ELSE RestoreGroups(e, Tail(groupList), updatedTabs, fail)

\* Mutant: the first TabRecord that resolves is activated, active or not.
RestoreActiveAny(e, recorded, updatedTabs, fail) ==
  LET k == FindIndex(recorded, LAMBDA o : findTabByUrl(updatedTabs, o.url) # 0)
      id == updatedTabs[findTabByUrl(updatedTabs, recorded[k].url)].id
  IN IF k = 0 THEN e
     ELSE IF fail = "activate"
     THEN [e EXCEPT !.calls = Append(@, Call("activate", id, FALSE))]
     ELSE [e EXCEPT !.tabs = ActivateTab(@, id),
                    !.calls = Append(@, Call("activate", id, TRUE))]

\* lines 410-423: activate the first active TabRecord that resolves.
RestoreActive(e, recorded, updatedTabs, fail) ==
  LET k == FindIndex(recorded, LAMBDA o : o.active /\ findTabByUrl(updatedTabs, o.url) # 0)
      id == updatedTabs[findTabByUrl(updatedTabs, recorded[k].url)].id
  IN IF k = 0 THEN e
     ELSE IF fail = "activate"
     THEN [e EXCEPT !.calls = Append(@, Call("activate", id, FALSE))]
     ELSE [e EXCEPT !.tabs = ActivateTab(@, id),
                    !.calls = Append(@, Call("activate", id, TRUE))]

RestoreFailures ==
  {"none", "winCreate", "tabCreate", "waitQuery", "pin", "query", "group",
   "groupUpdate", "activate"}

\* Mutant: groups and the active tab are resolved against the list the
\* convergence wait returned.
RestoreWindowRecordStale(e, session, windowData, fail, settled) ==
  LET urls == [i \in 1..Len(windowData.tabs) |-> windowData.tabs[i].url]
      tabUrls == SelectSeq(urls, LAMBDA u : ~IsUnrestorable(u))
      w == e.nextId
      e1 == RestoreCreate(e, tabUrls, fail, settled)
      createdTabs == IF fail = "waitQuery" THEN <<>> ELSE TabsOf(e1.tabs, w)
      e2 == RestorePins(e1, windowData.tabs, createdTabs, fail)
      g3 == RestoreGroups(e2, session.groups, createdTabs, fail)
  IN IF Len(tabUrls) = 0 THEN [env |-> e, raised |-> NoError]
     ELSE IF fail = "winCreate"
     THEN [env |-> [e EXCEPT !.calls = Append(@, Call("createWindow", w, FALSE))],
           raised |-> ErrAdapter]
     ELSE IF fail = "query" THEN [env |-> e2, raised |-> ErrAdapter]
     ELSE IF g3.raised # NoError THEN g3
     ELSE [env |-> RestoreActive(g3.env, windowData.tabs, createdTabs, fail),
           raised |-> NoError]

\* Mutant: a WindowRecord without a restorable url ends the restore.
RestoreWindowRecordNoSkip(e, session, windowData, fail, settled) ==
  LET urls == [i \in 1..Len(windowData.tabs) |-> windowData.tabs[i].url]
      tabUrls == SelectSeq(urls, LAMBDA u : ~IsUnrestorable(u))
      w == e.nextId
      e1 == RestoreCreate(e, tabUrls, fail, settled)
      createdTabs == IF fail = "waitQuery" THEN <<>> ELSE TabsOf(e1.tabs, w)
      e2 == RestorePins(e1, windowData.tabs, createdTabs, fail)
      updatedTabs == TabsOf(e2.tabs, w)
      g3 == RestoreGroups(e2, session.groups, updatedTabs, fail)
  IN IF Len(tabUrls) = 0 THEN [env |-> e, raised |-> ErrAdapter]
     ELSE IF fail = "winCreate"
     THEN [env |-> [e EXCEPT !.calls = Append(@, Call("createWindow", w, FALSE))],
           raised |-> ErrAdapter]
     ELSE IF fail = "query" THEN [env |-> e2, raised |-> ErrAdapter]
     ELSE IF g3.raised # NoError THEN g3
     ELSE [env |-> RestoreActive(g3.env, windowData.tabs, updatedTabs, fail),
           raised |-> NoError]

\* Mutant: a rejected chrome.tabs.create ends the restore.
RestoreWindowRecordStrict(e, session, windowData, fail, settled) ==
  LET urls == [i \in 1..Len(windowData.tabs) |-> windowData.tabs[i].url]
      tabUrls == SelectSeq(urls, LAMBDA u : ~IsUnrestorable(u))
      w == e.nextId
      e1 == RestoreCreate(e, tabUrls, fail, settled)
      createdTabs == IF fail = "waitQuery" THEN <<>> ELSE TabsOf(e1.tabs, w)
      e2 == RestorePins(e1, windowData.tabs, createdTabs, fail)
      updatedTabs == TabsOf(e2.tabs, w)
      g3 == RestoreGroups(e2, session.groups, updatedTabs, fail)
  IN IF Len(tabUrls) = 0 THEN [env |-> e, raised |-> NoError]
     ELSE IF fail = "winCreate"
     THEN [env |-> [e EXCEPT !.calls = Append(@, Call("createWindow", w, FALSE))],
           raised |-> ErrAdapter]
     ELSE IF \E i \in 1..Len(e1.calls) : e1.calls[i].op = "createTab" /\ ~e1.calls[i].ok
     THEN [env |-> e1, raised |-> ErrAdapter]
     ELSE IF fail = "query" THEN [env |-> e2, raised |-> ErrAdapter]
     ELSE IF g3.raised # NoError THEN g3
     ELSE [env |-> RestoreActive(g3.env, windowData.tabs, updatedTabs, fail),
           raised |-> NoError]

\* One iteration of the loop of lines 320-424 over a WindowRecord.
RestoreWindowRecord(e, session, windowData, fail, settled) ==
  LET urls == [i \in 1..Len(windowData.tabs) |-> windowData.tabs[i].url]
      tabUrls == SelectSeq(urls, LAMBDA u : ~IsUnrestorable(u))
      w == e.nextId
      e1 == RestoreCreate(e, tabUrls, fail, settled)
      \* waitForTabs: the window's tabs, [] when its queries reject
      createdTabs == IF fail = "waitQuery" THEN <<>> ELSE TabsOf(e1.tabs, w)
      e2 == RestorePins(e1, windowData.tabs, createdTabs, fail)
      updatedTabs == TabsOf(e2.tabs, w)
      g3 == RestoreGroups(e2, session.groups, updatedTabs, fail)
  IN IF Len(tabUrls) = 0 THEN [env |-> e, raised |-> NoError]
     ELSE IF fail = "winCreate"
     THEN [env |-> [e EXCEPT !.calls = Append(@, Call("createWindow", w, FALSE))],
           raised |-> ErrAdapter]
     ELSE IF fail = "query" THEN [env |-> e2, raised |-> ErrAdapter]
     ELSE IF g3.raised # NoError THEN g3
     ELSE [env |-> RestoreActive(g3.env, windowData.tabs, updatedTabs, fail),
           raised |-> NoError]

\* lines 425-431
RestoreCatch(msg) ==
  IF Includes(msg, "Session not found") \/ Includes(msg, "Invalid")
     \/ Includes(msg, "Failed to restore")
  THEN msg ELSE ErrRestoreFailed

(***************************************************************************)
(* Initial states: a live arrangement the browser can hold.                *)
(***************************************************************************)
MaxWins == 2
MaxGroups == 2

GroupAttrs ==
  <<[title |-> "Work", color |-> "blue", collapsed |-> FALSE],
    [title |-> "", color |-> "red", collapsed |-> TRUE]>>

\* The attributes of the g-th group: the two alternate, starting with either.
AttrsOf(g, first) == GroupAttrs[((g + first) % 2) + 1]

TabSpec ==
  {t \in [w : 1..MaxWins, url : Urls, pinned : BOOLEAN, grp : 0..MaxGroups] :
     t.pinned => t.grp = 0}

\* Windows are numbered in order; pinned tabs lead their window; a group lies
\* in one window, its tabs adjacent; groups are numbered in order of first
\* use.  The active tab of a window is its last one.
ValidArrangement(a) ==
  LET n == Len(a) IN
  /\ a[1].w = 1
  /\ \A i \in 1..(n - 1) : a[i + 1].w \in {a[i].w, a[i].w + 1}
  /\ \A i \in 1..(n - 1) : a[i + 1].w = a[i].w /\ a[i + 1].pinned => a[i].pinned
  /\ \A i, j \in 1..n :
       i < j /\ a[i].grp # 0 /\ a[i].grp = a[j].grp
         => a[i].w = a[j].w /\ \A k \in i..j : a[k].grp = a[i].grp
  /\ \A i \in 1..n : a[i].grp > 1 => \E j \in 1..(i - 1) : a[j].grp = a[i].grp - 1

Arrangements ==
  UNION {{a \in [1..n -> TabSpec] : ValidArrangement(a)} : n \in 1..MaxTabs}

FirstFreshId == MaxWins + MaxTabs + MaxGroups + 1

LiveTabOf(a, i) ==
  [id |-> MaxWins + i, windowId |-> a[i].w, url |-> a[i].url, pendingUrl |-> NoUrl,
   title |-> TitleOf(a[i].url), pinned |-> a[i].pinned,
   active |-> (i = Len(a) \/ a[i + 1].w # a[i].w),
   groupId |-> IF a[i].grp = 0 THEN TAB_ID_NONE ELSE MaxWins + MaxTabs + a[i].grp]

UsedGroups(a) == {a[i].grp : i \in 1..Len(a)} \ {0}

\* Free room left by the other keys of the store: plenty, the 10 bytes of the
\* quota scenario, and room that holds a snapshot's text once but not twice.
OtherBytesChoices == {0, STORAGE_QUOTA - 20, STORAGE_QUOTA - 400}

NoSession ==
  [id |-> "", name |-> ManualName, timestamp |-> 0, windows |-> <<>>, groups |-> <<>>]
RsIdle ==
  [pc |-> "idle", session |-> NoSession, idx |-> 0, count |-> 0, base |-> 0,
   immediate |-> FALSE, clean |-> TRUE, settled |-> TRUE]
\* An undo invocation: `held` is the length of the stored stack when it began,
\* `history` its own copy of the stack, `entry` the popped entry, `acted` the
\* ungroup / group / group-update calls it issued, `fails` the calls made to
\* fail, `consumed` the timestamps of the entries this side has replayed,
\* `alone` whether nothing else touched the stack meanwhile.
UndoIdle ==
  [pc |-> "idle", count |-> 0, held |-> 0, history |-> <<>>, entry |-> <<>>,
   result |-> "none", wrote |-> FALSE, threw |-> FALSE, acted |-> <<>>,
   fails |-> {}, consumed |-> {}, alone |-> TRUE]

\* The contexts that run handlers on the `sessions` key, each a JavaScript
\* event loop of its own: the popup page, the service worker, the options page.
Contexts == {"popup", "worker", "options"}

\* A handler between two awaits: `pc` its position, `base` the stored list it
\* read, `list` the list it is about to write, `id` the session id it was
\* given, `name` the name it saves or renames to, `prefix` and `maxCount` the
\* retention family it prunes, `snap` the snapshot it captured.
LpIdle ==
  [pc |-> "idle", base |-> <<>>, list |-> <<>>, id |-> "", name |-> ManualName,
   prefix |-> "", maxCount |-> 0, snap |-> <<>>, readFailed |-> FALSE]

\* The last completed write (or refused write) of `sessions`.
NoWrite ==
  [op |-> "none", ctx |-> "", before |-> <<>>, id |-> "", name |-> ManualName,
   prefix |-> "", maxCount |-> 0, alone |-> TRUE, wrote |-> FALSE, threw |-> FALSE,
   readFailed |-> FALSE]

\* `saved`: the snapshots whose save resolved; `removed`: the ids removed by
\* deleteSession or by retention; `file`: the last exported file; `ops`: the
\* number of handlers started, `budget` how many may start; `serial`: every
\* handler finishes before the next one starts.
NoLedger ==
  [saved |-> {}, removed |-> {}, file |-> <<>>, ops |-> 0, budget |-> 0,
   serial |-> TRUE, last |-> NoWrite]

ListIdle ==
  /\ lp = [c \in Contexts |-> LpIdle]
  /\ ledger = NoLedger

\* No function is being run on its own.
UnitIdle == [pc |-> "idle"]

InitLive(a, first) ==
  /\ wins = [w \in 1..a[Len(a)].w |-> w]
  /\ tabs = [i \in 1..Len(a) |-> LiveTabOf(a, i)]
  /\ groups = {[id |-> MaxWins + MaxTabs + g, title |-> AttrsOf(g, first).title,
                color |-> AttrsOf(g, first).color,
                collapsed |-> AttrsOf(g, first).collapsed] :
               g \in UsedGroups(a)}
  /\ nextId = FirstFreshId

InitRest ==
  /\ now = 1
  /\ sessions = <<>>
  /\ undoHistory = <<>>
  /\ pushed = <<>>
  /\ calls = <<>>
  /\ ret = Outcome("none", FALSE, NoError, "", <<>>, 0, 0, TRUE, FALSE)
  /\ rs = RsIdle
  /\ up = UndoIdle
  /\ ub = UndoIdle
  /\ ListIdle
  /\ unit = UnitIdle

Init ==
  /\ \E a \in Arrangements : \E first \in 0..1 :
       /\ UsedGroups(a) = {} => first = 0
       /\ InitLive(a, first)
  /\ otherBytes = 0
  /\ InitRest

\* The store specification: captures only, against a store whose other keys
\* leave more or less room.  No tab is pinned.
StoreArrangements ==
  {a \in Arrangements :
     /\ \A i \in 1..Len(a) : ~a[i].pinned
     /\ Cardinality(UsedGroups(a)) <= 1}

InitStore ==
  /\ \E a \in StoreArrangements : InitLive(a, 0)
  /\ otherBytes \in OtherBytesChoices
  /\ InitRest

(***************************************************************************)
(* Actions of the session specification: every handler runs to completion  *)
(* before the next one starts, except restoreSession, which proceeds one   *)
(* WindowRecord at a time.  Captures come first, restores after them.      *)
(***************************************************************************)
liveVars == <<wins, tabs, groups, nextId>>
storeVars == <<otherBytes, lp, ledger, unit>>
undoVars == <<undoHistory, up, ub, pushed>>

Tick ==
  /\ now < MaxClock
  /\ rs.pc = "idle" /\ rs.count = 0
  /\ now' = now + 1
  /\ UNCHANGED <<liveVars, sessions, storeVars, calls, ret, rs, undoVars>>

SaveOp(limit) ==
  \E fail \in SaveFailures :
    /\ rs.pc = "idle" /\ rs.count = 0
    /\ Len(sessions) < limit
    /\ saveCurrentSession(ManualName, fail)
    /\ calls' = <<>>
    /\ UNCHANGED <<liveVars, now, storeVars, rs, undoVars>>

AutoSaveOp(limit) ==
  \E fail \in InlineFailures :
    /\ rs.pc = "idle" /\ rs.count = 0
    /\ Len(sessions) < limit
    /\ autoSaveSession(fail)
    /\ calls' = <<>>
    /\ UNCHANGED <<liveVars, now, storeVars, rs, undoVars>>

\* The user closes window w; the service worker's onRemoved listener runs.
WindowRemovedOp(limit) ==
  \E w \in Range(wins) : \E fail \in InlineFailures :
    /\ rs.pc = "idle" /\ rs.count = 0
    /\ Len(sessions) < limit
    /\ wins' = SelectSeq(wins, LAMBDA x : x # w)
    /\ tabs' = SelectSeq(tabs, LAMBDA t : t.windowId # w)
    /\ groups' = PruneGroups(groups, tabs')
    /\ onWindowRemoved(fail, wins', tabs', groups')
    /\ calls' = <<>>
    /\ UNCHANGED <<nextId, now, storeVars, rs, undoVars>>

Save == SaveOp(MaxSessions)
AutoSave == AutoSaveOp(MaxSessions)
WindowRemoved == WindowRemovedOp(MaxSessions)

Env == [wins |-> wins, tabs |-> tabs, groups |-> groups, nextId |-> nextId, calls |-> <<>>]

SetEnv(e) ==
  /\ wins' = e.wins
  /\ tabs' = e.tabs
  /\ groups' = e.groups
  /\ nextId' = e.nextId
  /\ calls' = e.calls

SessionIds == {ToString(t) : t \in 0..MaxClock}

\* restoreSession(sessionId), lines 306-319: look the snapshot up and validate
\* it, then enter the loop over its WindowRecords.
RestoreBegin ==
  \E sessionId \in SessionIds : \E getFails \in BOOLEAN : \E settled \in BOOLEAN :
    /\ rs.pc = "idle"
    /\ rs.count < MaxRestores
    /\ LET list == getAllSessions(getFails)
           i == FindIndex(list, LAMBDA s : s.id = sessionId)
           raised == IF i = 0 THEN ErrNotFound
                     ELSE IF ~validateSession(list[i]) THEN ErrInvalid
                     ELSE NoError
           room == 0
           started == [pc |-> "windows", session |-> list[i], idx |-> 1,
                       count |-> rs.count + 1, base |-> nextId,
                       immediate |-> /\ ret.op = "save" /\ ~ret.threw
                                     /\ ret.clean /\ ret.val = sessionId,
                       clean |-> ~getFails, settled |-> settled]
       IN IF raised # NoError
          THEN /\ ret' = Outcome("restore", TRUE, RestoreCatch(raised), sessionId,
                                 sessions, 0, room, ~getFails, FALSE)
               /\ rs' = [rs EXCEPT !.count = @ + 1, !.base = nextId]
          ELSE IF Len(list[i].windows) = 0
          THEN /\ ret' = Outcome("restore", FALSE, NoError, sessionId,
                                 sessions, 0, room, ~getFails, FALSE)
               /\ rs' = [started EXCEPT !.pc = "idle"]
          ELSE /\ ret' = ret
               /\ rs' = started
    /\ calls' = <<>>
    /\ UNCHANGED <<liveVars, now, sessions, storeVars, undoVars>>

\* One WindowRecord of the loop, lines 320-424, and the catch of lines 425-431.
RestoreWindowOver(failures) ==
  \E fail \in failures :
    /\ rs.pc = "windows"
    /\ LET r == RestoreWindowRecord([Env EXCEPT !.calls = calls], rs.session,
                                    rs.session.windows[rs.idx], fail, rs.settled)
           last == rs.idx = Len(rs.session.windows)
           room == 0
           clean == rs.clean /\ fail = "none"
       IN /\ SetEnv(r.env)
          /\ IF r.raised # NoError
             THEN /\ ret' = Outcome("restore", TRUE, RestoreCatch(r.raised), rs.session.id,
                                    sessions, 0, room, clean, FALSE)
                  /\ rs' = [rs EXCEPT !.pc = "idle", !.clean = clean]
             ELSE IF last
             THEN /\ ret' = Outcome("restore", FALSE, NoError, rs.session.id,
                                    sessions, 0, room, clean, FALSE)
                  /\ rs' = [rs EXCEPT !.pc = "idle", !.clean = clean]
             ELSE /\ ret' = ret
                  /\ rs' = [rs EXCEPT !.idx = @ + 1, !.clean = clean]
    /\ UNCHANGED <<now, sessions, storeVars, undoVars>>

RestoreWindow == RestoreWindowOver(RestoreFailures)

Next == Tick \/ Save \/ AutoSave \/ WindowRemoved \/ RestoreBegin \/ RestoreWindow

Spec == Init /\ [][Next]_vars

StoreSave == SaveOp(MaxStored)
StoreAutoSave == AutoSaveOp(MaxStored)
StoreWindowRemoved == WindowRemovedOp(MaxStored)

NextStore == Tick \/ StoreSave \/ StoreAutoSave \/ StoreWindowRemoved

SpecStore == InitStore /\ [][NextStore]_vars

(***************************************************************************)
(* Properties of the session specification.                                *)
(***************************************************************************)
\* The arrangement that was captured, and the windows the restore created.
OriginalTabs == SelectSeq(tabs, LAMBDA t : t.windowId < rs.base)
RestoredTabs == SelectSeq(tabs, LAMBDA t : t.windowId >= rs.base)

UrlSet(ts) == {UrlOrPending(ts[i]) : i \in 1..Len(ts)}
UrlPins(ts) == {<<UrlOrPending(ts[i]), ts[i].pinned>> : i \in 1..Len(ts)}
GroupLooks(ts) ==
  {[title |-> GroupOf(groups, g).title, color |-> GroupOf(groups, g).color,
    collapsed |-> GroupOf(groups, g).collapsed] : g \in LiveGroupIds(ts)}

\* restoreSession has returned normally, it restored the snapshot returned by
\* the saveCurrentSession call just before it, and no adapter call failed.
RoundTripDone ==
  /\ rs.pc = "idle" /\ ret.op = "restore" /\ ~ret.threw
  /\ rs.immediate /\ rs.clean /\ ret.clean

RoundTripSame ==
  /\ UrlSet(RestoredTabs) = UrlSet(OriginalTabs)
  /\ UrlPins(RestoredTabs) = UrlPins(OriginalTabs)
  /\ GroupLooks(RestoredTabs) = GroupLooks(OriginalTabs)

\* Every captured tab is restorable, no two share a url, every group has a
\* title, and the snapshot's id is the id of no other stored snapshot.
RoundTripCovered ==
  /\ \A i \in 1..Len(OriginalTabs) : ~IsUnrestorable(OriginalTabs[i].url)
  /\ \A i, j \in 1..Len(OriginalTabs) :
       OriginalTabs[i].url = OriginalTabs[j].url => i = j
  /\ \A g \in LiveGroupIds(OriginalTabs) : GroupOf(groups, g).title # ""
  /\ Cardinality({i \in 1..Len(sessions) : sessions[i].id = ret.val}) = 1

IsEmptySnapshot(s) ==
  /\ \A i \in 1..Len(s.windows) : s.windows[i].tabs = <<>>
  /\ s.groups = <<>>

StoredWithId(id) == {i \in 1..Len(sessions) : sessions[i].id = id}
RestoreReturned == rs.pc = "idle" /\ ret.op = "restore"

\* C9: restoreSession throws 'Session not found' when no stored snapshot has
\* the id, throws 'Invalid or empty session' when the snapshot it read fails
\* validation, and in both cases has issued no mutating live-environment call.
C9_RestoreRejects ==
  RestoreReturned =>
    /\ StoredWithId(ret.val) = {} => ret.threw /\ ret.msg = ErrNotFound
    /\ ( /\ ret.clean /\ StoredWithId(ret.val) # {}
         /\ \A i \in StoredWithId(ret.val) : IsEmptySnapshot(sessions[i]) )
       => ret.threw /\ ret.msg = ErrInvalid
    /\ ret.threw /\ ret.msg \in {ErrNotFound, ErrInvalid}
       => calls = <<>> /\ RestoredTabs = <<>>

C9_Witness ==
  /\ RestoreReturned /\ ret.threw /\ ret.msg = ErrInvalid
  /\ StoredWithId(ret.val) # {} /\ calls = <<>>

\* C10 (as claimed): once restoreSession has created a window or a tab it
\* returns normally, whatever call fails later and whatever the GroupRecords
\* look like: it throws only when it has created nothing.
C10_ThrowsOnlyBeforeMutation ==
  RestoreReturned /\ ret.threw =>
    \A i \in 1..Len(calls) : ~(calls[i].ok /\ calls[i].op \in {"createWindow", "createTab"})

(***************************************************************************)
(* Quota.                                                                  *)
(***************************************************************************)
QuotaErrors == {ErrQuotaExport, ErrQuotaDelete}
SaveOverBudget == ret.op = "save" /\ ret.est > ret.room
SaveRefusedForQuota == ret.threw /\ ret.msg \in QuotaErrors /\ sessions = ret.before

C3_EveryPathChecksQuota ==
  ret.op \in {"save", "autosave", "recovery"} /\ ret.fail = "none" /\ ret.wrote
    => ret.est <= ret.room

(***************************************************************************)
(* Undo Stack: capture of the arrangement before an action.                *)
(* saveUndoState lines 1246-1313; captureCurrentGroupsInline and           *)
(* saveUndoStateInline, part_001 lines 311-404.                            *)
(***************************************************************************)
\* The Set of group ids of a window's tabs, in insertion order.
UndoGroupIds(wtabs) ==
  LET keep == SelectSeq([i \in 1..Len(wtabs) |-> i],
                        LAMBDA i : /\ wtabs[i].groupId # TAB_ID_NONE
                                   /\ \A j \in 1..(i - 1) : wtabs[j].groupId # wtabs[i].groupId)
  IN [k \in 1..Len(keep) |-> wtabs[keep[k]].groupId]

\* The service worker also records the pinned flag.
UndoTabState(wtabs, i, shape) ==
  [id |-> wtabs[i].id, url |-> wtabs[i].url, title |-> wtabs[i].title,
   groupId |-> IF wtabs[i].groupId # TAB_ID_NONE THEN <<wtabs[i].groupId>> ELSE <<>>,
   index |-> i - 1,
   pinned |-> IF shape = "inline" THEN <<wtabs[i].pinned>> ELSE <<>>]

UndoGroupState(wtabs, gs, groupId) ==
  LET group == GroupOf(gs, groupId)
      tabsInGroup == SelectSeq(wtabs, LAMBDA t : t.groupId = groupId)
  IN [id |-> groupId, title |-> group.title, color |-> group.color,
      collapsed |-> group.collapsed,
      tabIds |-> [k \in 1..Len(tabsInGroup) |-> tabsInGroup[k].id]]

\* A group whose chrome.tabGroups.get fails is left out.
UndoWindowState(w, ts, gs, failing, shape) ==
  LET wtabs == TabsOf(ts, w)
      ids == SelectSeq(UndoGroupIds(wtabs), LAMBDA g : g \notin failing)
  IN [id |-> w,
      tabs |-> [i \in 1..Len(wtabs) |-> UndoTabState(wtabs, i, shape)],
      groups |-> [k \in 1..Len(ids) |-> UndoGroupState(wtabs, gs, ids[k])]]

captureCurrentGroups(ws, ts, gs, failing, shape) ==
  [windows |-> [k \in 1..Len(ws) |-> UndoWindowState(ws[k], ts, gs, failing, shape)]]

UndoEntry(actionType, clock, state) ==
  [type |-> actionType, timestamp |-> clock, previousGroups |-> state]

\* Mutant: nothing is evicted.
pushUnbounded(history, entry) == Append(history, entry)

\* history.push(entry); if (history.length > 20) history.shift();
pushBounded(history, entry) ==
  LET h == Append(history, entry)
  IN IF Len(h) > MAX_UNDO THEN Tail(h) ELSE h

UndoPushFailures == {"none", "get", "getAll", "groupGet", "set"}

\* The entry saveUndoState builds; every error of the function is swallowed
\* and then nothing is stored.
PopupUndoEntry(actionType, fail) ==
  UndoEntry(actionType, now,
            captureCurrentGroups(wins, tabs, groups,
                                 IF fail = "groupGet" THEN LiveGroupIds(tabs) ELSE {},
                                 "popup"))

PopupPushStores(fail) == fail \notin {"get", "getAll", "set"}

saveUndoState(actionType, fail) ==
  IF PopupPushStores(fail)
  THEN pushBounded(undoHistory, PopupUndoEntry(actionType, fail))
  ELSE undoHistory

\* captureCurrentGroupsInline answers {windows: []} when chrome.windows.getAll
\* fails, and that empty arrangement is pushed.
InlineUndoEntry(actionType, fail) ==
  UndoEntry(actionType, now,
            IF fail = "getAll" THEN [windows |-> <<>>]
            ELSE captureCurrentGroups(wins, tabs, groups,
                                      IF fail = "groupGet" THEN LiveGroupIds(tabs) ELSE {},
                                      "inline"))

InlinePushStores(fail) == fail \notin {"get", "set"}

saveUndoStateInline(actionType, fail) ==
  IF InlinePushStores(fail)
  THEN pushBounded(undoHistory, InlineUndoEntry(actionType, fail))
  ELSE undoHistory

(***************************************************************************)
(* Undo Stack: replay of a recorded arrangement.                           *)
(* performUndo lines 1333-1378; restoreUndoStateInline part_001 406-476.   *)
(***************************************************************************)
UndoEnv == [tabs |-> tabs, groups |-> groups, nextId |-> nextId, acted |-> <<>>,
            threw |-> FALSE]

\* chrome.tabs.ungroup([tab.id]) for every grouped tab of the window, each
\* call in its own try.
UngroupEach(e, w, fail) ==
  LET grouped == SelectSeq(TabsOf(e.tabs, w), LAMBDA t : t.groupId # TAB_ID_NONE)
      ids == {grouped[i].id : i \in 1..Len(grouped)}
      freed == [j \in 1..Len(e.tabs) |->
                  IF e.tabs[j].id \in ids
                  THEN [e.tabs[j] EXCEPT !.groupId = TAB_ID_NONE] ELSE e.tabs[j]]
      issued == [i \in 1..Len(grouped) |-> Call("ungroup", grouped[i].id, fail # "ungroup")]
  IN IF fail = "ungroup" THEN [e EXCEPT !.acted = @ \o issued]
     ELSE [e EXCEPT !.tabs = freed, !.groups = PruneGroups(@, freed),
                    !.acted = @ \o issued]

\* Mutant: the recorded tab's url is tried before its id.
UndoMatchByUrl(existingTabs, windowState, savedTabId) ==
  LET byId == FindIndex(existingTabs, LAMBDA t : t.id = savedTabId)
      saved == FindIndex(windowState.tabs, LAMBDA t : t.id = savedTabId)
      byUrl == IF saved # 0
               THEN FindIndex(existingTabs, LAMBDA t : t.url = windowState.tabs[saved].url)
               ELSE 0
  IN IF byUrl # 0 THEN byUrl ELSE byId

\* The live tab a recorded tab id stands for: the tab with that id, else the
\* first tab with the recorded tab's url; 0 when there is none.
UndoMatch(existingTabs, windowState, savedTabId) ==
  LET byId == FindIndex(existingTabs, LAMBDA t : t.id = savedTabId)
      saved == FindIndex(windowState.tabs, LAMBDA t : t.id = savedTabId)
  IN IF byId # 0 THEN byId
     ELSE IF saved # 0
          THEN FindIndex(existingTabs, LAMBDA t : t.url = windowState.tabs[saved].url)
          ELSE 0

tabsToGroup(existingTabs, windowState, group) ==
  LET found == [k \in 1..Len(group.tabIds) |->
                  UndoMatch(existingTabs, windowState, group.tabIds[k])]
      hits == SelectSeq(found, LAMBDA i : i # 0)
  IN [k \in 1..Len(hits) |-> existingTabs[hits[k]].id]

\* Mutant: the recreated group keeps the look chrome gives a new group.
UndoOneGroupBare(e, w, windowState, group, fail) ==
  LET ids == tabsToGroup(TabsOf(e.tabs, w), windowState, group)
      g == e.nextId
      joined == GroupTabs(e.tabs, Range(ids), g)
  IN IF ids = <<>> THEN e
     ELSE IF fail = "group" THEN [e EXCEPT !.acted = Append(@, Call("group", 0, FALSE))]
     ELSE [e EXCEPT !.tabs = joined,
                    !.groups = PruneGroups(@ \cup {FreshGroup(g)}, joined),
                    !.nextId = g + 1,
                    !.acted = @ \o <<Call("group", g, TRUE),
                                      Call("updateGroup", g, TRUE)>>]

\* chrome.tabs.group then chrome.tabGroups.update, both in one try.
UndoOneGroup(e, w, windowState, group, fail) ==
  LET ids == tabsToGroup(TabsOf(e.tabs, w), windowState, group)
      g == e.nextId
      joined == GroupTabs(e.tabs, Range(ids), g)
      look == IF fail = "groupUpdate" THEN FreshGroup(g)
              ELSE [id |-> g, title |-> group.title, color |-> group.color,
                    collapsed |-> group.collapsed]
  IN IF ids = <<>> THEN e
     ELSE IF fail = "group" THEN [e EXCEPT !.acted = Append(@, Call("group", 0, FALSE))]
     ELSE [e EXCEPT !.tabs = joined,
                    !.groups = PruneGroups(@ \cup {look}, joined),
                    !.nextId = g + 1,
                    !.acted = @ \o <<Call("group", g, TRUE),
                                      Call("updateGroup", g, fail # "groupUpdate")>>]

RECURSIVE UndoGroups(_, _, _, _, _)
UndoGroups(e, w, windowState, remaining, fail) ==
  IF remaining = <<>> THEN e
  ELSE UndoGroups(UndoOneGroup(e, w, windowState, Head(remaining), fail),
                  w, windowState, Tail(remaining), fail)

\* Mutant: a recorded window that is gone ends the replay.
UndoOneWindowAbort(e, windowState, fail, side) ==
  IF windowState.id \notin Range(wins) THEN [e EXCEPT !.threw = TRUE]
  ELSE IF fail = "winGet" THEN e
  ELSE IF fail = "query" THEN [e EXCEPT !.threw = (side = "popup")]
  ELSE UndoGroups(UngroupEach(e, windowState.id, fail), windowState.id,
                  windowState, windowState.groups, fail)

\* One recorded window.  chrome.windows.get has its own catch; a failing
\* chrome.tabs.query escapes performUndo's loop and is swallowed per window
\* by restoreUndoStateInline.
UndoOneWindow(e, windowState, fail, side) ==
  IF windowState.id \notin Range(wins) \/ fail = "winGet" THEN e
  ELSE IF fail = "query" THEN [e EXCEPT !.threw = (side = "popup")]
  ELSE UndoGroups(UngroupEach(e, windowState.id, fail), windowState.id,
                  windowState, windowState.groups, fail)

RECURSIVE UndoWindows(_, _, _, _)
UndoWindows(e, remaining, fail, side) ==
  IF remaining = <<>> \/ e.threw THEN e
  ELSE UndoWindows(UndoOneWindow(e, Head(remaining), fail, side),
                   Tail(remaining), fail, side)

\* The replay of an entry.  The loadActiveGroups that follows it in the popup
\* catches its own errors.
UndoReplayed(entry, fail, side) ==
  UndoWindows(UndoEnv, entry.previousGroups.windows, fail, side)

\* Mutant: the failure of the replay is not reported.
undoReturnsTrue(threw) == "true"

\* return true at the end of the try, return false in the catch.
undoReturns(threw) == IF threw THEN "false" ELSE "true"

\* Mutant: an empty stack is not noticed.
NothingToUndoNever(history) == FALSE

\* history.length === 0
NothingToUndo(history) == Len(history) = 0

\* Mutant: the oldest entry is taken.
popOldest(history) ==
  [entry |-> IF history = <<>> THEN <<>> ELSE <<Head(history)>>,
   rest |-> IF history = <<>> THEN <<>> ELSE Tail(history)]

\* history.pop(): undefined on an empty array.
pop(history) ==
  [entry |-> IF history = <<>> THEN <<>> ELSE <<Last(history)>>,
   rest |-> Front(history)]

(***************************************************************************)
(* Undo Stack: the handlers.                                               *)
(***************************************************************************)
Sides == {"popup", "worker"}
Side(side) == IF side = "popup" THEN up ELSE ub
Other(side) == IF side = "popup" THEN ub ELSE up
SetSides(side, mine, others) ==
  IF side = "popup" THEN up' = mine /\ ub' = others ELSE ub' = mine /\ up' = others

\* An invocation in progress notices nothing, but is no longer alone.
Disturb(x) == IF x.pc = "idle" THEN x ELSE [x EXCEPT !.alone = FALSE]

\* The clock moves on with every push, so that entries are told apart by
\* their timestamp.  The model pushes before the first undo begins.
UndoClockStart == MAX_UNDO + 1
NoUndoYet == up.count = 0 /\ ub.count = 0
CanPush == now < UndoClockStart + MaxPushes /\ NoUndoYet

\* ungroupAllTabs, tabManager.js lines 94-109: one chrome.tabs.ungroup call
\* for the grouped tabs of the current window.
ungroupAllTabs(w, fail) ==
  LET grouped == SelectSeq(TabsOf(tabs, w), LAMBDA t : t.groupId # TAB_ID_NONE)
      ids == {grouped[i].id : i \in 1..Len(grouped)}
      freed == [j \in 1..Len(tabs) |->
                  IF tabs[j].id \in ids THEN [tabs[j] EXCEPT !.groupId = TAB_ID_NONE]
                  ELSE tabs[j]]
  IN IF grouped = <<>> THEN [tabs |-> tabs, acted |-> <<>>]
     ELSE IF fail = "ungroup" THEN [tabs |-> tabs, acted |-> <<Call("ungroup", w, FALSE)>>]
     ELSE [tabs |-> freed, acted |-> <<Call("ungroup", w, TRUE)>>]

\* Click on "Ungroup all", sessionManager.js lines 1539-1573: push the
\* arrangement, then ungroup the current window.
UngroupAll ==
  \E w \in Range(wins) : \E fail \in UndoPushFailures \cup {"ungroup"} :
    LET after == ungroupAllTabs(w, fail)
    IN /\ CanPush
       /\ undoHistory' = saveUndoState("ungroup-all", fail)
       /\ pushed' = IF PopupPushStores(fail)
                     THEN Append(pushed, PopupUndoEntry("ungroup-all", fail)) ELSE pushed
       /\ tabs' = after.tabs
       /\ groups' = PruneGroups(groups, after.tabs)
       /\ calls' = after.acted
       /\ now' = now + 1
       /\ UNCHANGED <<wins, nextId, sessions, storeVars, ret, rs, up, ub>>

\* saveUndoStateInline('organize') in the service worker.
PushInline ==
  \E fail \in UndoPushFailures :
    /\ CanPush
    /\ undoHistory' = saveUndoStateInline("organize", fail)
    /\ pushed' = IF InlinePushStores(fail)
                  THEN Append(pushed, InlineUndoEntry("organize", fail)) ELSE pushed
    /\ now' = now + 1
    /\ calls' = <<>>
    /\ UNCHANGED <<liveVars, sessions, storeVars, ret, rs, up, ub>>

\* The user closes a tab and opens its page again: same url, new identity.
Reopen ==
  \E i \in 1..Len(tabs) :
    LET again == [tabs[i] EXCEPT !.id = nextId, !.groupId = TAB_ID_NONE, !.pinned = FALSE]
        ts == [tabs EXCEPT ![i] = again]
    IN /\ nextId < FirstFreshId + MaxReopens
       /\ NoUndoYet
       /\ tabs' = ts
       /\ groups' = PruneGroups(groups, ts)
       /\ nextId' = nextId + 1
       /\ calls' = <<>>
       /\ UNCHANGED <<wins, now, sessions, storeVars, ret, rs, undoVars>>

\* performUndo lines 1321-1327, undoLastActionInline lines 480-485: read the
\* stack; an empty one ends the invocation.
UndoGet(side) ==
  \E fail \in {"none", "get"} :
    LET x == Side(side)
        begun == [UndoIdle EXCEPT !.count = x.count + 1, !.consumed = x.consumed,
                                  !.held = Len(undoHistory),
                                  !.alone = (Other(side).pc = "idle"),
                                  !.fails = {fail} \ {"none"}]
    IN /\ x.pc = "idle" /\ x.count < MaxUndos
       /\ SetSides(side,
                   IF fail = "get"
                   THEN [begun EXCEPT !.threw = TRUE, !.result = undoReturns(TRUE)]
                   ELSE IF NothingToUndo(undoHistory)
                   THEN [begun EXCEPT !.result = "false"]
                   ELSE [begun EXCEPT !.pc = "read", !.history = undoHistory],
                   Disturb(Other(side)))
       /\ calls' = <<>>
       /\ UNCHANGED <<liveVars, now, sessions, storeVars, ret, rs, undoHistory, pushed>>

\* lines 1329-1330, 487-488: pop the last entry and write the rest back.
UndoPop(side) ==
  \E fail \in {"none", "set"} :
    LET x == Side(side)
        p == pop(x.history)
    IN /\ x.pc = "read"
       /\ undoHistory' = IF fail = "set" THEN undoHistory ELSE p.rest
       /\ SetSides(side,
                   IF fail = "set"
                   THEN [x EXCEPT !.pc = "idle", !.threw = TRUE, !.fails = @ \cup {"set"},
                                  !.result = undoReturns(TRUE)]
                   ELSE IF p.entry = <<>>
                   THEN [x EXCEPT !.pc = "idle", !.wrote = TRUE, !.threw = TRUE,
                                  !.result = undoReturns(TRUE)]
                   ELSE [x EXCEPT !.pc = "popped", !.wrote = TRUE, !.entry = p.entry],
                   Other(side))
       /\ UNCHANGED <<liveVars, now, sessions, storeVars, calls, ret, rs, pushed>>

ReplayFailures == {"none", "winGet", "query", "ungroup", "group", "groupUpdate"}

\* lines 1332-1388, 490-495: replay the popped entry and answer.
UndoReplay(side) ==
  \E fail \in ReplayFailures :
    LET x == Side(side)
        e == UndoReplayed(x.entry[1], fail, side)
    IN /\ x.pc = "popped"
       /\ tabs' = e.tabs
       /\ groups' = e.groups
       /\ nextId' = e.nextId
       /\ calls' = e.acted
       /\ SetSides(side,
                   [x EXCEPT !.pc = "idle", !.acted = e.acted, !.threw = e.threw,
                             !.fails = @ \cup ({fail} \ {"none"}),
                             !.consumed = @ \cup {x.entry[1].timestamp},
                             !.result = undoReturns(e.threw)],
                   Other(side))
       /\ UNCHANGED <<wins, now, sessions, storeVars, ret, rs, undoHistory, pushed>>

\* The stack a model starts from: the arrangement pushed before each of `n`
\* earlier actions.
Prefilled(n) ==
  [k \in 1..n |->
     UndoEntry(IF k % 2 = 0 THEN "ungroup-all" ELSE "group-by-domain",
               UndoClockStart - n - 1 + k,
               captureCurrentGroups(wins, tabs, groups, {}, "popup"))]

\* MaxTabs tabs, none pinned, every url an ordinary one, the first tab grouped.
UndoArrangements ==
  {a \in Arrangements :
     /\ Len(a) = MaxTabs
     /\ \A i \in 1..Len(a) : ~a[i].pinned /\ a[i].url \in {UrlA, UrlB}
     /\ a[1].url = UrlA /\ a[1].grp = 1}

InitStack(prefills, clock) ==
  /\ \E a \in UndoArrangements : InitLive(a, 0)
  /\ otherBytes = 0
  /\ now = clock
  /\ sessions = <<>>
  /\ \E n \in prefills : undoHistory = Prefilled(n)
  /\ pushed = undoHistory
  /\ calls = <<>>
  /\ ret = Outcome("none", FALSE, NoError, "", <<>>, 0, 0, TRUE, FALSE)
  /\ rs = RsIdle
  /\ up = UndoIdle
  /\ ub = UndoIdle
  /\ ListIdle
  /\ unit = UnitIdle

\* The push specification: a stack at or just under its capacity, and pushes.
InitPush == InitStack({MAX_UNDO - 1, MAX_UNDO}, UndoClockStart)

NextPush == UngroupAll \/ PushInline \/ Reopen

SpecPush == InitPush /\ [][NextPush]_vars

\* The undo specification: an empty or a two-entry stack, one more push, and
\* MaxUndos undo invocations on each side, their steps interleaved.
InitUndo == InitStack({0, 2}, UndoClockStart + MaxPushes - 1)

NextUndo ==
  \/ UngroupAll
  \/ PushInline
  \/ Reopen
  \/ \E side \in Sides : UndoGet(side)
  \/ \E side \in Sides : UndoPop(side)
  \/ \E side \in Sides : UndoReplay(side)

SpecUndo == InitUndo /\ [][NextUndo]_vars

(***************************************************************************)
(* Undo Stack: properties.                                                 *)
(***************************************************************************)
LastN(list, n) == IF Len(list) <= n THEN list ELSE SubSeq(list, Len(list) - n + 1, Len(list))

\* C4: the list under `undoHistory` never has more than 20 entries, and after
\* pushes in sequence with no undo in between it holds the 20 most recently
\* pushed entries in push order, the oldest evicted first, whether pushed by
\* saveUndoState or by saveUndoStateInline.
C4_UndoBound ==
  /\ Len(undoHistory) <= MAX_UNDO
  /\ NoUndoYet => undoHistory = LastN(pushed, MAX_UNDO)

C4_Witness ==
  /\ Len(pushed) = MAX_UNDO + 2 /\ Len(undoHistory) = MAX_UNDO
  /\ undoHistory[1] = pushed[3]
  /\ pushed[MAX_UNDO + 1].type = "ungroup-all" /\ pushed[MAX_UNDO + 2].type = "organize"

Returned(x) == x.count > 0 /\ x.pc = "idle"

\* C5: an undo invoked on an empty stack returns false, issues no ungroup,
\* group or group-update call, and does not write `undoHistory`.
C5_EmptyUndo ==
  \A side \in Sides :
    Returned(Side(side)) /\ Side(side).held = 0
      => /\ Side(side).result = "false"
         /\ Side(side).acted = <<>>
         /\ ~Side(side).wrote

C5_Witness ==
  /\ Returned(up) /\ up.held = 0 /\ up.fails = {} /\ up.result = "false"
  /\ Returned(ub) /\ ub.held = 0 /\ ub.fails = {} /\ ub.result = "false"
  /\ undoHistory = <<>>

\* The grouping of a live window is the recorded one: same member tabs, title,
\* color and collapsed flag per group.
RecordedLooks(windowState) ==
  {[members |-> Range(windowState.groups[k].tabIds),
    title |-> windowState.groups[k].title, color |-> windowState.groups[k].color,
    collapsed |-> windowState.groups[k].collapsed] : k \in 1..Len(windowState.groups)}

LiveLooks(w, ts, gs) ==
  LET wtabs == TabsOf(ts, w)
  IN {[members |-> {wtabs[i].id : i \in {j \in 1..Len(wtabs) : wtabs[j].groupId = g}},
       title |-> GroupOf(gs, g).title, color |-> GroupOf(gs, g).color,
       collapsed |-> GroupOf(gs, g).collapsed] : g \in LiveGroupIds(wtabs)}

StillThere(windowState, ws, ts) ==
  /\ windowState.id \in Range(ws)
  /\ \A k \in 1..Len(windowState.tabs) :
       \E i \in 1..Len(ts) : ts[i].id = windowState.tabs[k].id
                              /\ ts[i].windowId = windowState.id

\* The pop step of an invocation nobody else overlaps; the entry it takes is
\* the last one pushed when it is the first undo.
LifoPop(x, y, other) ==
  x.pc = "read" /\ y.pc = "popped" /\ x.alone
    => /\ undoHistory' = Front(undoHistory)
       /\ y.entry = <<Last(undoHistory)>>
       /\ x.count = 1 /\ other.count = 0 => y.entry = <<Last(pushed)>>

\* The replay step of such an invocation, no call of it failing.
LifoReplay(x, y) ==
  x.pc = "popped" /\ y.pc = "idle" /\ x.alone /\ y.fails = {}
    => /\ y.result = "true"
       /\ \A k \in 1..Len(x.entry[1].previousGroups.windows) :
            LET windowState == x.entry[1].previousGroups.windows[k]
            IN StillThere(windowState, wins', tabs')
                 => LiveLooks(windowState.id, tabs', groups') = RecordedLooks(windowState)

\* C6: undo is last-in-first-out: on a non-empty stack it removes exactly the
\* most recently pushed entry, replays the arrangement that entry recorded,
\* and leaves the earlier entries stored in their order.
C6_Lifo ==
  [][/\ LifoPop(up, up', ub) /\ LifoPop(ub, ub', up)
     /\ LifoReplay(up, up') /\ LifoReplay(ub, ub')]_vars

C6_Witness ==
  /\ Returned(up) /\ up.alone /\ up.fails = {} /\ up.result = "true"
  /\ Len(up.history) = 3 /\ undoHistory = Front(up.history)
  /\ up.entry = <<Last(pushed)>>
  /\ \E i \in 1..Len(up.acted) : up.acted[i].op = "updateGroup"
  /\ ub.count = 0

\* C7: no UndoEntry is replayed by both the popup's performUndo and the
\* service worker's undoLastActionInline, also when the two overlap.
C7_ConsumedOnce == up.consumed \cap ub.consumed = {}

Unguarded(side) ==
  {"get", "set"} \cup (IF side = "popup" THEN {"query"} ELSE {})
Fatal(side) == {"get", "set"}

UrlExtension == [scheme |-> "chrome-extension", rest |-> "abcdef/popup.html"]
CaptureUrls == Urls \cup {NoUrl, UrlExtension}

CaptureTabSpec ==
  {t \in [w : 1..MaxWins, url : CaptureUrls, pinned : BOOLEAN, grp : 0..MaxGroups] :
     t.pinned => t.grp = 0}

CaptureArrangements ==
  UNION {{a \in [1..n -> CaptureTabSpec] : ValidArrangement(a)} : n \in 1..MaxTabs}

InitCapture ==
  /\ \E a \in CaptureArrangements : InitLive(a, 0)
  /\ otherBytes = 0
  /\ InitRest

NextCapture == Tick \/ Save \/ AutoSave \/ WindowRemoved

SpecCapture == InitCapture /\ [][NextCapture]_vars

\* The snapshot a manual save has just stored.
ManualSaved == ret.op = "save" /\ ret.wrote
SavedSnapshot == Last(sessions)

\* C11: a snapshot produced by saveCurrentSession holds no TabRecord whose url
\* is absent or starts with chrome:// or chrome-extension://, no tabUrls entry
\* for such a tab, and no WindowRecord without tabs; a live window whose tabs
\* are all such pages has no WindowRecord.
C11_CaptureFilter ==
  ManualSaved =>
    LET s == SavedSnapshot IN
    /\ \A i \in 1..Len(s.windows) :
         /\ Len(s.windows[i].tabs) > 0
         /\ \A j \in 1..Len(s.windows[i].tabs) : ~IsUnrestorable(s.windows[i].tabs[j].url)
    /\ \A g \in 1..Len(s.groups) :
         \A k \in 1..Len(s.groups[g].tabUrls) : ~IsUnrestorable(s.groups[g].tabUrls[k])
    /\ \A w \in Range(wins) :
         (\A t \in Range(TabsOf(tabs, w)) : IsUnrestorable(t.url))
           => \A i \in 1..Len(s.windows) : s.windows[i].id # w

\* A save of two windows, one showing only an internal page in a group, the
\* other a web page: one WindowRecord, no GroupRecord membership.
C11_Witness ==
  /\ ManualSaved
  /\ Len(wins) = 2
  /\ \E t \in Range(tabs) : IsUnrestorable(t.url) /\ t.groupId # TAB_ID_NONE /\ t.windowId = 1
  /\ \A t \in Range(TabsOf(tabs, 1)) : IsUnrestorable(t.url)
  /\ Len(SavedSnapshot.windows) = 1

\* The snapshot a background producer (auto-save alarm, window close) has
\* just stored.
BackgroundSaved ==
  ret.op \in {"autosave", "recovery"} /\ ret.wrote /\ sessions # <<>>

\* The urls of the TabRecords of snapshot s that carry the group id of g.
MemberUrls(s, g) ==
  {t.url : t \in {x \in UNION {Range(s.windows[i].tabs) : i \in 1..Len(s.windows)} :
                    x.groupId = <<g.id>>}}

\* C12: a snapshot stored by the auto-save timer or by the recovery on window
\* close obeys the capture contract of a manual save: no TabRecord with an
\* absent or internal url, no WindowRecord without tabs, and every GroupRecord
\* lists the urls of its member tabs in tabUrls.
C12_BackgroundContract ==
  BackgroundSaved =>
    LET s == SavedSnapshot IN
    /\ \A i \in 1..Len(s.windows) :
         /\ Len(s.windows[i].tabs) > 0
         /\ \A j \in 1..Len(s.windows[i].tabs) : ~IsUnrestorable(s.windows[i].tabs[j].url)
    /\ \A g \in 1..Len(s.groups) : Range(s.groups[g].tabUrls) = MemberUrls(s, s.groups[g])

(***************************************************************************)
(* The list specification: the handlers that read, change and write the    *)
(* `sessions` key, one step per storage call.  Between the get and the set *)
(* of one handler the handlers of the other contexts may run.              *)
(***************************************************************************)
MaxListOps == 2
MaxSerialOps == 3
MaxTargets == 2

\* The clock starts after the timestamps of the snapshots already stored.
ListClockStart == AUTO_SAVE_KEEP + 2

StoredIds == {sessions[i].id : i \in 1..Len(sessions)}
Family(list, prefix) == SelectSeq(list, LAMBDA s : s.name.prefix = prefix)

\* maxRecoverySessions as the options page stores it; 0 stands for unset.
MaxRecoveryChoices == {0, 2}
\* maxRecoverySessions || 3
RecoveryMaxCount(cfg) == IF cfg = 0 THEN RECOVERY_KEEP ELSE cfg

RenamedName == [prefix |-> "", rest |-> "Renamed"]

AllIdle == \A c \in Contexts : lp[c].pc = "idle"
CanStart(c) ==
  /\ lp[c].pc = "idle"
  /\ ledger.ops < ledger.budget
  /\ ledger.serial => AllIdle

\* The snapshots the user picks for delete and rename: the oldest stored ones.
Targets == {sessions[i].id : i \in {j \in 1..Len(sessions) : j <= MaxTargets}}

\* What a handler of context c leaves in the ledger when it finishes.
LastWrite(op, c, wrote, threw) ==
  [op |-> op, ctx |-> c, before |-> sessions, id |-> lp[c].id, name |-> lp[c].name,
   prefix |-> lp[c].prefix, maxCount |-> lp[c].maxCount,
   alone |-> sessions = lp[c].base, wrote |-> wrote, threw |-> threw,
   readFailed |-> lp[c].readFailed]

Started(c, rec) ==
  /\ lp' = [lp EXCEPT ![c] = rec]
  /\ ledger' = [ledger EXCEPT !.ops = @ + 1]

Finished(c, last) ==
  /\ lp' = [lp EXCEPT ![c] = LpIdle]
  /\ ledger' = [ledger EXCEPT !.last = last]

listFrame == <<otherBytes, undoHistory, calls, ret, rs, up, ub, pushed, unit>>

\* Time passes between two events: every handler starts a tick after the last.
Later == now' = now + 1


\* saveCurrentSession, lines 59-143: capture, quota check, read of `sessions`.
SaveGet ==
  \E fail \in {"none", "get"} :
    /\ CanStart("popup")
    /\ LET sessionData == PopupCapture(ManualName, now, wins, tabs, groups, {})
           refused == \/ estimateSessionSize(sessionData) > checkStorageQuota(FALSE).available
                      \/ fail = "get"
           rec == [LpIdle EXCEPT !.pc = "saveSet", !.base = sessions,
                                 !.list = Append(sessions, sessionData),
                                 !.id = sessionData.id, !.snap = <<sessionData>>]
       IN IF refused
          THEN /\ lp' = lp
               /\ ledger' = [ledger EXCEPT !.ops = @ + 1,
                                           !.last = [LastWrite("save", "popup", FALSE, TRUE)
                                                       EXCEPT !.id = sessionData.id]]
          ELSE Started("popup", rec)
    /\ Later
    /\ UNCHANGED <<liveVars, sessions, listFrame>>

\* saveCurrentSession, lines 144-155: the write, and the return of the id.
SaveSet ==
  \E fail \in {"none", "set"} :
    /\ lp["popup"].pc = "saveSet"
    /\ LET ok == SetOutcome(lp["popup"].list, fail) = NoError
       IN /\ sessions' = IF ok THEN lp["popup"].list ELSE sessions
          /\ lp' = [lp EXCEPT !["popup"] = LpIdle]
          /\ ledger' = [ledger EXCEPT
                          !.last = LastWrite("save", "popup", ok, ~ok),
                          !.saved = IF ok THEN @ \cup Range(lp["popup"].snap) ELSE @]
    /\ UNCHANGED <<liveVars, now, listFrame>>

\* deleteSession(sessionId), lines 440-443, called for a listed snapshot
\* (handleSessionAction, lines 1187-1197): getAllSessions and filter.
DeleteGet ==
  \E sessionId \in Targets : \E getFails \in BOOLEAN :
    /\ CanStart("popup")
    /\ Started("popup",
               [LpIdle EXCEPT !.pc = "deleteSet", !.base = sessions, !.id = sessionId,
                              !.readFailed = getFails,
                              !.list = SelectSeq(getAllSessions(getFails),
                                                 LAMBDA s : s.id # sessionId)])
    /\ Later
    /\ UNCHANGED <<liveVars, sessions, listFrame>>

\* deleteSession, lines 444-448: the write; a rejected write is rethrown.
DeleteSet ==
  \E fail \in {"none", "set"} :
    /\ lp["popup"].pc = "deleteSet"
    /\ LET ok == SetOutcome(lp["popup"].list, fail) = NoError
       IN /\ sessions' = IF ok THEN lp["popup"].list ELSE sessions
          /\ lp' = [lp EXCEPT !["popup"] = LpIdle]
          /\ ledger' = [ledger EXCEPT
                          !.last = LastWrite("delete", "popup", ok, ~ok),
                          !.removed = IF ok THEN @ \cup {lp["popup"].id} ELSE @]
    /\ UNCHANGED <<liveVars, now, listFrame>>

\* handleSessionAction('rename'), lines 1125-1170: the read of the list and the
\* lookup; the rename dialog opens.
RenameGet ==
  \E sessionId \in Targets : \E getFails \in BOOLEAN :
    /\ CanStart("popup")
    /\ LET list == getAllSessions(getFails)
           i == FindIndex(list, LAMBDA s : s.id = sessionId)
       IN IF i = 0
          THEN /\ lp' = lp
               /\ ledger' = [ledger EXCEPT !.ops = @ + 1,
                                           !.last = [LastWrite("rename", "popup", FALSE, FALSE)
                                                       EXCEPT !.id = sessionId,
                                                              !.readFailed = getFails]]
          ELSE Started("popup",
                       [LpIdle EXCEPT !.pc = "renameModal", !.base = sessions,
                                      !.list = list, !.id = sessionId,
                                      !.name = list[i].name])
    /\ Later
    /\ UNCHANGED <<liveVars, sessions, listFrame>>

\* handleSessionAction('rename'), lines 1171-1185: the dialog closes with a
\* name, the same name or none; a new name is mapped over the list read
\* before and written.
RenameSet ==
  \E newName \in {RenamedName, lp["popup"].name} : \E fail \in {"none", "set"} :
    /\ lp["popup"].pc = "renameModal"
    /\ LET updatedSessions ==
             [i \in 1..Len(lp["popup"].list) |->
                IF lp["popup"].list[i].id = lp["popup"].id
                THEN [lp["popup"].list[i] EXCEPT !.name = newName]
                ELSE lp["popup"].list[i]]
           writes == newName # lp["popup"].name
           ok == writes /\ SetOutcome(updatedSessions, fail) = NoError
       IN /\ sessions' = IF ok THEN updatedSessions ELSE sessions
          /\ lp' = [lp EXCEPT !["popup"] = LpIdle]
          /\ ledger' = [ledger EXCEPT
                          !.last = [LastWrite("rename", "popup", ok, FALSE)
                                      EXCEPT !.name = newName]]
    /\ UNCHANGED <<liveVars, now, listFrame>>

\* cleanupRecoverySessions(maxCount), lines 456-468.
CleanupGet ==
  \E cfg \in MaxRecoveryChoices : \E getFails \in BOOLEAN :
    /\ CanStart("popup")
    /\ LET list == getAllSessions(getFails)
           maxCount == RecoveryMaxCount(cfg)
           rec == [LpIdle EXCEPT !.pc = "pruneSet", !.base = sessions,
                                 !.list = PruneList(list, "Recovery (", maxCount),
                                 !.prefix = "Recovery (", !.maxCount = maxCount,
                                 !.readFailed = getFails]
       IN IF Len(Family(list, "Recovery (")) > maxCount
          THEN Started("popup", rec)
          ELSE /\ lp' = lp
               /\ ledger' = [ledger EXCEPT !.ops = @ + 1,
                                           !.last = [LastWrite("prune", "popup", FALSE, FALSE)
                                                       EXCEPT !.prefix = "Recovery (",
                                                              !.maxCount = maxCount,
                                                              !.alone = TRUE,
                                                              !.readFailed = getFails]]
    /\ Later
    /\ UNCHANGED <<liveVars, sessions, listFrame>>

\* saveCurrentSessionInline, lines 31-104, as autoSaveSession and the
\* onRemoved listener call it: capture and read of `sessions`.  A rejected
\* read is logged and the caller goes on to its cleanup.
InlineGet(sessionName, prefix, ws, ts, gs) ==
  \E fail \in {"none", "get"} :
    LET sessionData == InlineCapture(sessionName, now, ws, ts, gs, {})
    IN Started("worker",
               IF fail = "get"
               THEN [LpIdle EXCEPT !.pc = "pruneGet", !.prefix = prefix]
               ELSE [LpIdle EXCEPT !.pc = "inlineSet", !.base = sessions,
                                   !.list = Append(sessions, sessionData),
                                   !.id = sessionData.id, !.prefix = prefix,
                                   !.snap = <<sessionData>>])

\* The auto-save alarm fires: autoSaveSession, lines 178-184.
AutoSaveGet ==
  /\ CanStart("worker")
  /\ InlineGet(AutoSaveName(now), "Auto-save (", wins, tabs, groups)
  /\ Later
  /\ UNCHANGED <<liveVars, sessions, listFrame>>

\* The user closes window w: the onRemoved listener, lines 261-273.  Nothing
\* is saved when no window is left.
RecoveryGet ==
  \E w \in Range(wins) :
    /\ CanStart("worker")
    /\ wins' = SelectSeq(wins, LAMBDA x : x # w)
    /\ tabs' = SelectSeq(tabs, LAMBDA t : t.windowId # w)
    /\ groups' = PruneGroups(groups, tabs')
    /\ IF Len(wins') > 0
       THEN InlineGet(RecoveryName(now), "Recovery (", wins', tabs', groups')
       ELSE /\ lp' = lp
            /\ ledger' = [ledger EXCEPT !.ops = @ + 1]
    /\ Later
    /\ UNCHANGED <<nextId, sessions, listFrame>>

\* saveCurrentSessionInline, lines 106-113: the write; a rejected write is
\* logged and the id is returned all the same.
InlineSet ==
  \E fail \in {"none", "set"} :
    /\ lp["worker"].pc = "inlineSet"
    /\ LET ok == SetOutcome(lp["worker"].list, fail) = NoError
       IN /\ sessions' = IF ok THEN lp["worker"].list ELSE sessions
          /\ lp' = [lp EXCEPT !["worker"] =
                      [LpIdle EXCEPT !.pc = "pruneGet", !.prefix = lp["worker"].prefix]]
          /\ ledger' = [ledger EXCEPT
                          !.last = LastWrite("inline", "worker", ok, FALSE),
                          !.saved = IF ok THEN @ \cup Range(lp["worker"].snap) ELSE @]
    /\ UNCHANGED <<liveVars, now, listFrame>>

\* The cleanup after a background save: autoSaveSession lines 187-198, the
\* onRemoved listener lines 276-290.
PruneGet ==
  \E cfg \in MaxRecoveryChoices : \E fail \in {"none", "get"} :
    /\ lp["worker"].pc = "pruneGet"
    /\ LET prefix == lp["worker"].prefix
           maxCount == IF prefix = "Recovery (" THEN RecoveryMaxCount(cfg)
                       ELSE AUTO_SAVE_KEEP
           rec == [LpIdle EXCEPT !.pc = "pruneSet", !.base = sessions,
                                 !.list = PruneList(sessions, prefix, maxCount),
                                 !.prefix = prefix, !.maxCount = maxCount]
       IN IF fail = "none" /\ Len(Family(sessions, prefix)) > maxCount
          THEN lp' = [lp EXCEPT !["worker"] = rec] /\ ledger' = ledger
          ELSE Finished("worker",
                        [LastWrite("prune", "worker", FALSE, FALSE)
                           EXCEPT !.maxCount = maxCount, !.alone = TRUE,
                                  !.readFailed = fail = "get"])
    /\ UNCHANGED <<liveVars, now, sessions, listFrame>>

\* The ids retention evicts: those of the family's members after the newest
\* maxCount.
Evicted(list, prefix, maxCount) ==
  LET family == SortDesc(Family(list, prefix))
  IN {family[i].id : i \in (maxCount + 1)..Len(family)}

\* The write of the pruned list: sessionManager.js line 469, part_001 lines
\* 199 and 291.  A rejected write is logged.
PruneSet ==
  \E c \in {"popup", "worker"} : \E fail \in {"none", "set"} :
    /\ lp[c].pc = "pruneSet"
    /\ LET ok == SetOutcome(lp[c].list, fail) = NoError
       IN /\ sessions' = IF ok THEN lp[c].list ELSE sessions
          /\ lp' = [lp EXCEPT ![c] = LpIdle]
          /\ ledger' = [ledger EXCEPT
                          !.last = LastWrite("prune", c, ok, FALSE),
                          !.removed = IF ok
                                      THEN @ \cup Evicted(lp[c].base, lp[c].prefix, lp[c].maxCount)
                                      ELSE @]
    /\ UNCHANGED <<liveVars, now, listFrame>>

\* The export button of the options page, lines 276-300; the file is written
\* once.
Export ==
  /\ lp["options"].pc = "idle"
  /\ ledger.serial => AllIdle
  /\ Len(sessions) > 0
  /\ ledger.file = <<>>
  /\ lp' = lp
  /\ ledger' = [ledger EXCEPT !.file = sessions]
  /\ UNCHANGED <<liveVars, now, sessions, listFrame>>

\* The import handler of the options page, lines 303-345, given a file the
\* export wrote (it parses, and validateImportedSessions accepts it): read
\* of `sessions`, merge, size check.
ImportGet ==
  \E fail \in {"none", "get"} :
    /\ CanStart("options")
    /\ Len(ledger.file) > 0
    /\ LET merged == sessions \o ledger.file
           estimatedSize == Len(JsonSessions(merged)) * 2
       IN IF fail = "get" \/ estimatedSize > STORAGE_QUOTA
          THEN /\ lp' = lp
               /\ ledger' = [ledger EXCEPT !.ops = @ + 1,
                                           !.last = LastWrite("import", "options", FALSE, FALSE)]
          ELSE Started("options",
                       [LpIdle EXCEPT !.pc = "importSet", !.base = sessions, !.list = merged])
    /\ Later
    /\ UNCHANGED <<liveVars, sessions, listFrame>>

\* The import handler, lines 347-357: the write of the merged list.
ImportSet ==
  \E fail \in {"none", "set"} :
    /\ lp["options"].pc = "importSet"
    /\ LET ok == SetOutcome(lp["options"].list, fail) = NoError
       IN /\ sessions' = IF ok THEN lp["options"].list ELSE sessions
          /\ Finished("options", LastWrite("import", "options", ok, FALSE))
    /\ UNCHANGED <<liveVars, now, listFrame>>

\* The snapshots stored before the behaviour starts: one manual save, then
\* `rec` recoveries, then `auto` auto-saves, one clock tick apart.
Prestored(rec, auto) ==
  <<PopupCapture(ManualName, 1, wins, tabs, groups, {})>>
  \o [i \in 1..rec |-> InlineCapture(RecoveryName(i + 1), i + 1, wins, tabs, groups, {})]
  \o [i \in 1..auto |-> InlineCapture(AutoSaveName(i + 1), i + 1, wins, tabs, groups, {})]

ListPrefills ==
  {[rec |-> RECOVERY_KEEP, auto |-> 0], [rec |-> 0, auto |-> AUTO_SAVE_KEEP]}

\* Two windows, a mail tab in the first, a docs tab in the second.
ListArrangement ==
  <<[w |-> 1, url |-> UrlA, pinned |-> FALSE, grp |-> 0],
    [w |-> 2, url |-> UrlB, pinned |-> FALSE, grp |-> 0]>>

InitStored(budget, serial) ==
  /\ InitLive(ListArrangement, 0)
  /\ otherBytes = 0
  /\ now = ListClockStart
  /\ \E p \in ListPrefills : sessions = Prestored(p.rec, p.auto)
  /\ undoHistory = <<>>
  /\ pushed = <<>>
  /\ calls = <<>>
  /\ ret = Outcome("none", FALSE, NoError, "", <<>>, 0, 0, TRUE, FALSE)
  /\ rs = RsIdle
  /\ up = UndoIdle
  /\ ub = UndoIdle
  /\ lp = [c \in Contexts |-> LpIdle]
  /\ ledger = [NoLedger EXCEPT !.budget = budget, !.serial = serial]
  /\ unit = UnitIdle

\* Overlapping handlers, a few of them.
InitList == InitStored(MaxListOps, FALSE)

\* Handlers one after the other, more of them.
InitSerial == InitStored(MaxSerialOps, TRUE)

NextList ==
  \/ SaveGet \/ SaveSet
  \/ DeleteGet \/ DeleteSet
  \/ RenameGet \/ RenameSet
  \/ CleanupGet
  \/ AutoSaveGet \/ RecoveryGet \/ InlineSet \/ PruneGet \/ PruneSet
  \/ Export \/ ImportGet \/ ImportSet

SpecList == InitList /\ [][NextList]_vars

SpecSerial == InitSerial /\ [][NextList]_vars

(***************************************************************************)
(* Properties of the stored list.                                          *)
(***************************************************************************)
\* Snapshot s is in the list, under whatever name.
Holds(list, s) ==
  \E i \in 1..Len(list) :
    /\ list[i].id = s.id /\ list[i].timestamp = s.timestamp
    /\ list[i].windows = s.windows /\ list[i].groups = s.groups

\* C13: every snapshot whose save resolved stays in the stored list until
\* deleteSession or retention removes it, however the read-modify-write
\* cycles of the popup, the service worker and the options page overlap.
C13_NoLostSnapshot ==
  \A s \in ledger.saved : s.id \notin ledger.removed => Holds(sessions, s)

\* The last handler to finish was `op`, and it wrote the list.
Wrote(op) == ledger.last.op = op /\ ledger.last.wrote

\* C14: a rename changes the name of the snapshot with the given id and
\* nothing else: every other snapshot stored when the rename is written,
\* those appended while the dialog was open included, is still stored,
\* unchanged.
C14_RenameKeepsOthers ==
  Wrote("rename") =>
    /\ \A s \in Range(ledger.last.before) :
         s.id # ledger.last.id => s \in Range(sessions)
    /\ \A s \in Range(sessions) :
         \/ s \in Range(ledger.last.before)
         \/ /\ s.id = ledger.last.id /\ s.name = ledger.last.name
            /\ Holds(ledger.last.before, s)

\* C15: deleteSession(id) leaves exactly the snapshots stored before whose id
\* differs from id; when the write is rejected it throws and the stored list
\* is as before.
C15_DeleteExact ==
  ledger.last.op = "delete" =>
    /\ ledger.last.wrote =>
         /\ ~ledger.last.threw
         /\ Range(sessions) = {s \in Range(ledger.last.before) : s.id # ledger.last.id}
    /\ ~ledger.last.wrote =>
         /\ ledger.last.threw
         /\ sessions = ledger.last.before

Min(a, b) == IF a <= b THEN a ELSE b

\* The last handler to finish was a retention pass over the list it read,
\* and it went through: it wrote, or it found nothing to evict.
Pruned ==
  /\ ledger.last.op = "prune" /\ ledger.last.alone /\ ~ledger.last.readFailed
  /\ \/ ledger.last.wrote
     \/ Len(Family(ledger.last.before, ledger.last.prefix)) <= ledger.last.maxCount

\* C16: after a retention pass over a prefix family with maxCount, the stored
\* snapshots of that family are min(n, maxCount) of the n stored before, and
\* none of them is older than one that was evicted.
C16_KeepsNewest ==
  Pruned =>
    LET before == Family(ledger.last.before, ledger.last.prefix)
        after == Family(sessions, ledger.last.prefix)
    IN /\ Len(after) = Min(Len(before), ledger.last.maxCount)
       /\ Range(after) \subseteq Range(before)
       /\ \A a \in Range(after) : \A b \in Range(before) \ Range(after) :
            a.timestamp >= b.timestamp

\* C17: a retention pass over one prefix family leaves every snapshot of
\* another name (user-named, or of the other system family) in the stored
\* list, whatever saves, imports and prunes came before.
C17_KeepsOtherNames ==
  Wrote("prune") /\ ledger.last.alone =>
    \A s \in Range(ledger.last.before) :
      s.name.prefix # ledger.last.prefix => s \in Range(sessions)

\* C18: retention is idempotent: right after a retention pass over a prefix
\* family with maxCount, a second pass with the same prefix and maxCount
\* evicts nothing and leaves the stored list as it is.
C18_PruneIdempotent ==
  Pruned =>
    /\ PruneList(sessions, ledger.last.prefix, ledger.last.maxCount) = sessions
    /\ Range(PruneList(getAllSessions(FALSE), ledger.last.prefix, ledger.last.maxCount))
         = Range(sessions)

\* A pass that evicted snapshots from a family larger than maxCount.
C18_Witness ==
  /\ Wrote("prune") /\ ledger.last.alone
  /\ Len(Family(ledger.last.before, ledger.last.prefix)) > ledger.last.maxCount + 1
  /\ Len(sessions) < Len(ledger.last.before)

\* C19: in every state of the stored list, after any sequence of manual
\* saves, background saves and imports, no two snapshots have the same id.
C19_UniqueIds ==
  \A i, j \in 1..Len(sessions) : i # j => sessions[i].id # sessions[j].id

(***************************************************************************)
(* Group recreation on restore.                                            *)
(***************************************************************************)
\* restoreSession has returned normally and none of its calls failed.
RestoreDone ==
  /\ rs.pc = "idle" /\ rs.count > 0
  /\ ret.op = "restore" /\ ~ret.threw /\ rs.clean /\ ret.clean

RestoredWindows == {w \in Range(wins) : w >= rs.base}

\* The ids of the live tabs of restored window w that the tabUrls of the
\* k-th GroupRecord resolve to.
Resolved(k, w) ==
  Range(ResolveGroupTabs(rs.session.groups[k].tabUrls, TabsOf(tabs, w)))

\* Those of them that no later GroupRecord resolves to as well.
Settled(k, w) ==
  Resolved(k, w) \ UNION {Resolved(j, w) : j \in (k + 1)..Len(rs.session.groups)}

Members(g) == {tabs[i].id : i \in {j \in 1..Len(tabs) : tabs[j].groupId = g.id}}

\* Live group g carries what the k-th GroupRecord recorded.
Recreates(g, k) ==
  /\ g.title = rs.session.groups[k].title
  /\ g.color = rs.session.groups[k].color
  /\ g.collapsed = rs.session.groups[k].collapsed

GroupCalls == SelectSeq(calls, LAMBDA c : c.op = "group" /\ c.ok)

RestoredSeq == SelectSeq(wins, LAMBDA w : w >= rs.base)

\* The indices of the WindowRecords that have a restorable url (lines
\* 321-327), in recorded order: the j-th of them produced the j-th window.
RestorableRecords ==
  SelectSeq([i \in 1..Len(rs.session.windows) |-> i],
            LAMBDA i : \E t \in 1..Len(rs.session.windows[i].tabs) :
                         ~IsUnrestorable(rs.session.windows[i].tabs[t].url))

WindowOfTab(id) == tabs[FindIndex(tabs, LAMBDA t : t.id = id)].windowId

\* The activate calls issued on tabs of window w, resolved or rejected.
ActivateCalls(w) ==
  SelectSeq(calls, LAMBDA c : c.op = "activate" /\ WindowOfTab(c.arg) = w)

\* The first TabRecord, in recorded order, that is marked active and
\* resolves to a live tab of window w; 0 when there is none.
FirstActive(recorded, w) ==
  FindIndex(recorded, LAMBDA o : o.active /\ findTabByUrl(TabsOf(tabs, w), o.url) # 0)

ActiveTarget(recorded, w) ==
  TabsOf(tabs, w)[findTabByUrl(TabsOf(tabs, w), recorded[FirstActive(recorded, w)].url)].id

\* C21: for each restored window restoreSession issues at most one activate
\* call, and its target is the live tab resolved from the first TabRecord, in
\* recorded order, that has active = true and resolves to a live tab; once
\* the restore has returned with no call failing, that call has been issued
\* whenever such a TabRecord exists.
C21_ActiveRestored ==
  rs.count > 0 =>
    \A j \in 1..Len(RestoredSeq) :
      LET w == RestoredSeq[j]
          recorded == rs.session.windows[RestorableRecords[j]].tabs
          acts == ActivateCalls(w)
      IN /\ Len(acts) <= 1
         /\ Len(acts) = 1 =>
              /\ FirstActive(recorded, w) # 0
              /\ acts[1].arg = ActiveTarget(recorded, w)
         /\ RestoreDone /\ FirstActive(recorded, w) # 0 => Len(acts) = 1

\* A restore in which the active TabRecord is not the first one of its
\* window: the activate call moves the focus off the tab created first.
C21_Witness ==
  /\ RestoreDone
  /\ \E j \in 1..Len(RestoredSeq) :
       LET w == RestoredSeq[j]
           recorded == rs.session.windows[RestorableRecords[j]].tabs
       IN /\ Len(ActivateCalls(w)) = 1
          /\ FirstActive(recorded, w) > 1
          /\ ActivateCalls(w)[1].arg # TabsOf(tabs, w)[1].id
          /\ \E i \in 1..Len(tabs) : tabs[i].id = ActivateCalls(w)[1].arg /\ tabs[i].active

(***************************************************************************)
(* Functions run on their own.  The live environment and the store are     *)
(* at rest; `unit` holds the function's input, position and result.        *)
(***************************************************************************)
QuietArrangement == [i \in 1..1 |-> [w |-> 1, url |-> UrlA, pinned |-> FALSE, grp |-> 0]]

UnitInit(u) ==
  /\ InitLive(QuietArrangement, 0)
  /\ otherBytes = 0
  /\ now = 1
  /\ sessions = <<>>
  /\ undoHistory = <<>>
  /\ pushed = <<>>
  /\ calls = <<>>
  /\ ret = Outcome("none", FALSE, NoError, "", <<>>, 0, 0, TRUE, FALSE)
  /\ rs = RsIdle
  /\ up = UndoIdle
  /\ ub = UndoIdle
  /\ ListIdle
  /\ unit = u

unitFrame == <<liveVars, now, sessions, otherBytes, lp, ledger, calls, ret, rs, undoVars>>

(***************************************************************************)
(* validateSession on the values a stored list can hold.  The options      *)
(* page's import (options.js:145-166, 338-348) stores any parsed JSON       *)
(* array whose elements have a string or number id, a string name and a    *)
(* number timestamp; their windows and groups are not looked at.           *)
(***************************************************************************)
\* A JSON value: `n` is the length of a string or an array, the value of a
\* number; `items` the elements of an array.
JsUndefined == [kind |-> "undefined", n |-> 0, items |-> <<>>]
JsString(n) == [kind |-> "string", n |-> n, items |-> <<>>]
JsNumber(n) == [kind |-> "number", n |-> n, items |-> <<>>]
JsObject == [kind |-> "object", n |-> 0, items |-> <<>>]
JsArray(items) == [kind |-> "array", n |-> Len(items), items |-> items]

\* !v is false
Truthy(v) ==
  /\ v.kind # "undefined"
  /\ ~(v.kind \in {"string", "number"} /\ v.n = 0)

\* v.length === 0
LengthIsZero(v) == v.kind \in {"string", "array"} /\ v.n = 0

IsArray(v) == v.kind = "array"

\* validateSession, lines 188-211, line by line.
validateSessionValue(session) ==
  LET hasTabs ==
        /\ Truthy(session.windows) /\ IsArray(session.windows)
        /\ session.windows.n > 0
        /\ \E i \in 1..Len(session.windows.items) :
             LET windowData == session.windows.items[i]
             IN Truthy(windowData.tabs) /\ IsArray(windowData.tabs) /\ windowData.tabs.n > 0
  IN IF session.id.kind # "string" THEN FALSE
     ELSE IF session.name.kind # "string" THEN FALSE
     ELSE IF session.timestamp.kind # "number" THEN FALSE
     ELSE IF ~Truthy(session.windows) /\ ~Truthy(session.groups) THEN FALSE
     ELSE IF ~hasTabs /\ (~Truthy(session.groups) \/ LengthIsZero(session.groups)) THEN FALSE
     ELSE TRUE

ArraysOf(S, maxLen) == UNION {{JsArray(a) : a \in [1..n -> S]} : n \in 0..maxLen}

TabsValues == {JsUndefined, JsObject, JsArray(<<>>), JsArray(<<JsObject>>)}
WindowValues == {[tabs |-> t] : t \in TabsValues}
WindowsValues == ArraysOf(WindowValues, MaxWins) \cup {JsUndefined, JsObject, JsString(1)}
GroupsValues ==
  ArraysOf({JsObject}, MaxGroups)
    \cup {JsUndefined, JsObject, JsString(0), JsString(2), JsNumber(0), JsNumber(1)}

SessionValues ==
  [id : {JsString(1), JsNumber(1), JsUndefined},
   name : {JsString(1), JsUndefined},
   timestamp : {JsNumber(1), JsString(1)},
   windows : WindowsValues,
   groups : GroupsValues]

InitValidate ==
  \E v \in SessionValues : UnitInit([pc |-> "call", session |-> v, result |-> FALSE])

Validate ==
  /\ unit.pc = "call"
  /\ unit' = [unit EXCEPT !.pc = "done", !.result = validateSessionValue(unit.session)]
  /\ UNCHANGED unitFrame

NextValidate == Validate

SpecValidate == InitValidate /\ [][NextValidate]_vars

\* The tabs held by the WindowRecords of a value, the GroupRecords it holds.
RECURSIVE SumLen(_)
SumLen(ss) == IF ss = <<>> THEN 0 ELSE Len(Head(ss)) + SumLen(Tail(ss))

TabRecordCount(v) ==
  IF v.windows.kind # "array" THEN 0
  ELSE SumLen([i \in 1..Len(v.windows.items) |->
                 IF v.windows.items[i].tabs.kind = "array"
                 THEN v.windows.items[i].tabs.items ELSE <<>>])

GroupRecordCount(v) == IF v.groups.kind = "array" THEN Len(v.groups.items) ELSE 0

\* C22: validateSession accepts a snapshot exactly when it has a string id, a
\* string name, a numeric timestamp, and at least one tab in some
\* WindowRecord or at least one GroupRecord; a snapshot with no tabs and no
\* groups is rejected.
C22_ValidateExact ==
  unit.pc = "done" =>
    (unit.result <=>
       /\ unit.session.id.kind = "string"
       /\ unit.session.name.kind = "string"
       /\ unit.session.timestamp.kind = "number"
       /\ (TabRecordCount(unit.session) > 0 \/ GroupRecordCount(unit.session) > 0))

(***************************************************************************)
(* Failure flow of the service worker's background handlers.  Each         *)
(* handler is walked call by call; any call may reject, and a rejection    *)
(* goes to the catch of the innermost try block around the call.           *)
(***************************************************************************)
MaxBackgroundOps == 2

\* The adapter and storage calls of part_001 lines 29-308 and, for each, the
\* try blocks around it inside its function, outermost first.  `si` is
\* saveCurrentSessionInline, `cr` cleanupRecoverySessionsInline, `as`
\* autoSaveSession, `wr` the chrome.windows.onRemoved listener.  A TypeError
\* raised while filtering a malformed stored list counts with the read that
\* returned the list.
TryBlocks ==
  [si_getAll     |-> <<"si_outer">>,
   si_groupGet   |-> <<"si_outer", "si_window", "si_tab", "si_group">>,
   si_get        |-> <<"si_outer", "si_storage">>,
   si_set        |-> <<"si_outer", "si_storage">>,
   cr_get        |-> <<"cr_outer">>,
   cr_set        |-> <<"cr_outer">>,
   as_settings   |-> <<"as_outer">>,
   as_call       |-> <<"as_outer">>,
   as_cleanupGet |-> <<"as_outer", "as_cleanup">>,
   as_cleanupSet |-> <<"as_outer", "as_cleanup">>,
   as_notify     |-> <<"as_outer", "as_notify">>,
   wr_settings   |-> <<"wr_outer">>,
   wr_getAll     |-> <<"wr_outer", "wr_save">>,
   wr_call       |-> <<"wr_outer", "wr_save">>,
   wr_maxGet     |-> <<"wr_outer", "wr_save", "wr_cleanup">>,
   wr_cleanupGet |-> <<"wr_outer", "wr_save", "wr_cleanup">>,
   wr_cleanupSet |-> <<"wr_outer", "wr_save", "wr_cleanup">>]

\* Mutant: the settings reads of autoSaveSession and of the onRemoved
\* listener sit before the try.
TriesAfterSettings(site) ==
  IF site \in {"as_settings", "wr_settings"} THEN <<>> ELSE TryBlocks[site]

Tries(site) == TryBlocks[site]

\* Where control goes after the catch of a try block: the statement after
\* the block.  The per-tab, per-window and per-group catches of the capture
\* loops go on with the loop, which ends at the read of `sessions`.
Resume ==
  [si_group |-> "si_get", si_tab |-> "si_get", si_window |-> "si_get",
   si_storage |-> "si_return", si_outer |-> "si_return",
   cr_outer |-> "return",
   as_cleanup |-> "as_notify", as_notify |-> "return", as_outer |-> "return",
   wr_cleanup |-> "return", wr_save |-> "return", wr_outer |-> "return"]

InSaveInline(site) == site \in {"si_getAll", "si_groupGet", "si_get", "si_set"}
CallSite(op) == IF op = "autosave" THEN "as_call" ELSE "wr_call"

\* The try blocks around a call of the running handler, those of the caller
\* of saveCurrentSessionInline included.
Enclosing(op, site) ==
  IF InSaveInline(site) THEN Tries(CallSite(op)) \o Tries(site) ELSE Tries(site)

\* Where a rejection of the call at `site` lands.
Caught(op, site) ==
  IF Enclosing(op, site) = <<>> THEN "thrown" ELSE Resume[Last(Enclosing(op, site))]

\* `armed`: setInterval holds the auto-save callback (lines 163-170);
\* `fires`: how often it has run; `failed`: the calls of the running handler
\* that rejected; `caught`: the try blocks whose catch ran.
WorkerIdle ==
  [pc |-> "idle", op |-> "none", base |-> <<>>, snap |-> <<>>, over |-> FALSE,
   maxCount |-> 0, failed |-> {}, caught |-> {}, armed |-> TRUE, fires |-> 0,
   ops |-> 0, notify |-> TRUE]

\* One window holding a group of one tab, one window with a loose tab.
BackgroundArrangement ==
  <<[w |-> 1, url |-> UrlA, pinned |-> FALSE, grp |-> 1],
    [w |-> 2, url |-> UrlB, pinned |-> FALSE, grp |-> 0]>>

InitBackground ==
  /\ InitLive(BackgroundArrangement, 0)
  /\ otherBytes = 0
  /\ now = ListClockStart
  /\ \E p \in ListPrefills : sessions = Prestored(p.rec, p.auto)
  /\ undoHistory = <<>>
  /\ pushed = <<>>
  /\ calls = <<>>
  /\ ret = Outcome("none", FALSE, NoError, "", <<>>, 0, 0, TRUE, FALSE)
  /\ rs = RsIdle
  /\ up = UndoIdle
  /\ ub = UndoIdle
  /\ ListIdle
  /\ unit = WorkerIdle

workerFrame == <<otherBytes, lp, ledger, calls, rs, undoVars>>

\* The handler goes from the call at `site` to `next`, or, the call having
\* rejected, to where the rejection lands; `u` carries what the call left.
\* Reaching "return" or "thrown" ends the handler.
Proceed(u, site, fail, next) ==
  LET to == IF fail THEN Caught(u.op, site) ELSE next
      v == IF fail
           THEN [u EXCEPT !.failed = @ \cup {site},
                          !.caught = @ \cup (IF Enclosing(u.op, site) = <<>> THEN {}
                                             ELSE {Last(Enclosing(u.op, site))})]
           ELSE u
  IN IF to \in {"return", "thrown"}
     THEN /\ unit' = [WorkerIdle EXCEPT !.armed = u.armed, !.fires = u.fires,
                                        !.ops = u.ops, !.failed = v.failed,
                                        !.caught = v.caught, !.op = u.op]
          /\ ret' = Outcome(u.op, to = "thrown", IF to = "thrown" THEN ErrAdapter ELSE NoError,
                            "", sessions, 0, 0, v.failed = {}, FALSE)
     ELSE /\ unit' = [v EXCEPT !.pc = to]
          /\ ret' = ret

CanStartWorker == unit.pc = "idle" /\ unit.ops < MaxBackgroundOps

Begin(op, pc) ==
  [WorkerIdle EXCEPT !.pc = pc, !.op = op, !.armed = unit.armed,
                     !.fires = unit.fires + (IF op = "autosave" THEN 1 ELSE 0),
                     !.ops = unit.ops + 1]

\* The interval elapses: the callback of lines 163-170 calls autoSaveSession.
TimerFires ==
  /\ CanStartWorker /\ unit.armed
  /\ unit' = Begin("autosave", "as_settings")
  /\ Later
  /\ UNCHANGED <<liveVars, sessions, ret, workerFrame>>

\* The user closes window w: the onRemoved listener starts.
WindowClosed ==
  \E w \in Range(wins) :
    /\ CanStartWorker
    /\ wins' = SelectSeq(wins, LAMBDA x : x # w)
    /\ tabs' = SelectSeq(tabs, LAMBDA t : t.windowId # w)
    /\ groups' = PruneGroups(groups, tabs')
    /\ unit' = Begin("recovery", "wr_settings")
    /\ Later
    /\ UNCHANGED <<nextId, sessions, ret, workerFrame>>

\* cleanupRecoverySessionsInline is called.
CleanupCalled ==
  /\ CanStartWorker
  /\ unit' = Begin("cleanup", "cr_get")
  /\ Later
  /\ UNCHANGED <<liveVars, sessions, ret, workerFrame>>

\* Lines 180 and 263: the read of showNotifications, of crashRecoveryEnabled.
ReadSettings ==
  \E fail \in BOOLEAN : \E enabled \in BOOLEAN :
    /\ unit.pc \in {"as_settings", "wr_settings"}
    /\ IF unit.op = "autosave"
       THEN Proceed([unit EXCEPT !.notify = enabled], "as_settings", fail, "si_getAll")
       ELSE Proceed(unit, "wr_settings", fail, IF enabled THEN "wr_getAll" ELSE "return")
    /\ UNCHANGED <<liveVars, now, sessions, workerFrame>>

\* Line 267: the listener's own chrome.windows.getAll.
ListenerGetAll ==
  \E fail \in BOOLEAN :
    /\ unit.pc = "wr_getAll"
    /\ Proceed(unit, "wr_getAll", fail, IF Len(wins) > 0 THEN "si_getAll" ELSE "return")
    /\ UNCHANGED <<liveVars, now, sessions, workerFrame>>

WorkerName == IF unit.op = "autosave" THEN AutoSaveName(now) ELSE RecoveryName(now)

\* saveCurrentSessionInline, line 31: chrome.windows.getAll.
InlineGetAll ==
  \E fail \in BOOLEAN :
    /\ unit.pc = "si_getAll"
    /\ Proceed(unit, "si_getAll", fail, "si_groupGet")
    /\ UNCHANGED <<liveVars, now, sessions, workerFrame>>

\* Lines 43-92: the capture loops; chrome.tabGroups.get rejects for the
\* groups in `failing`.
InlineGroupGet ==
  \E failing \in SUBSET LiveGroupIds(tabs) :
    /\ unit.pc = "si_groupGet"
    /\ Proceed([unit EXCEPT !.snap = <<InlineCapture(WorkerName, now, wins, tabs,
                                                     groups, failing)>>],
               "si_groupGet", failing # {}, "si_get")
    /\ UNCHANGED <<liveVars, now, sessions, workerFrame>>

\* Line 107: the read of `sessions`.
InlineStoredGet ==
  \E fail \in BOOLEAN :
    /\ unit.pc = "si_get"
    /\ Proceed([unit EXCEPT !.base = sessions], "si_get", fail, "si_set")
    /\ UNCHANGED <<liveVars, now, sessions, workerFrame>>

\* Line 110: the write of the list with the snapshot appended.
InlineStoredSet ==
  \E fail \in {"none", "set"} :
    /\ unit.pc = "si_set"
    /\ LET list == unit.base \o unit.snap
           ok == SetOutcome(list, fail) = NoError
       IN /\ sessions' = IF ok THEN list ELSE sessions
          /\ Proceed(unit, "si_set", ~ok, "si_return")
    /\ UNCHANGED <<liveVars, now, workerFrame>>

\* saveCurrentSessionInline returns (the id, or null from its outer catch)
\* and its caller goes on: autoSaveSession line 187, the listener line 276.
InlineReturn ==
  /\ unit.pc = "si_return"
  /\ unit' = [unit EXCEPT !.pc = IF unit.op = "autosave" THEN "as_cleanupGet"
                                 ELSE "wr_maxGet"]
  /\ UNCHANGED <<liveVars, now, sessions, ret, workerFrame>>

\* Line 277: the read of maxRecoverySessions.
MaxGet ==
  \E fail \in BOOLEAN : \E cfg \in MaxRecoveryChoices :
    /\ unit.pc = "wr_maxGet"
    /\ Proceed([unit EXCEPT !.maxCount = RecoveryMaxCount(cfg)],
               "wr_maxGet", fail, "wr_cleanupGet")
    /\ UNCHANGED <<liveVars, now, sessions, workerFrame>>

WorkerPrefix == IF unit.op = "autosave" THEN "Auto-save (" ELSE "Recovery ("

\* Lines 123, 188 and 280: the read of `sessions` for retention.
WorkerCleanupGet ==
  \E fail \in BOOLEAN :
    /\ unit.pc \in {"cr_get", "as_cleanupGet", "wr_cleanupGet"}
    /\ LET maxCount == IF unit.op = "autosave" THEN AUTO_SAVE_KEEP
                       ELSE IF unit.op = "cleanup" THEN RECOVERY_KEEP
                       ELSE unit.maxCount
           over == Len(Family(sessions, WorkerPrefix)) > maxCount
           u == [unit EXCEPT !.base = sessions, !.maxCount = maxCount, !.over = over]
       IN IF unit.op = "autosave"
          THEN Proceed(u, "as_cleanupGet", fail,
                       IF over THEN "as_cleanupSet"
                       ELSE IF unit.notify THEN "as_notify" ELSE "return")
          ELSE IF unit.op = "cleanup"
          THEN Proceed(u, "cr_get", fail, IF over THEN "cr_set" ELSE "return")
          ELSE Proceed(u, "wr_cleanupGet", fail, IF over THEN "wr_cleanupSet" ELSE "return")
    /\ UNCHANGED <<liveVars, now, sessions, workerFrame>>

\* Lines 136, 199 and 291: the write of the pruned list.
WorkerCleanupSet ==
  \E fail \in {"none", "set"} :
    /\ unit.pc \in {"cr_set", "as_cleanupSet", "wr_cleanupSet"}
    /\ LET list == PruneList(unit.base, WorkerPrefix, unit.maxCount)
           ok == SetOutcome(list, fail) = NoError
       IN /\ sessions' = IF ok THEN list ELSE sessions
          /\ Proceed(unit, unit.pc, ~ok,
                     IF unit.op = "autosave" /\ unit.notify THEN "as_notify" ELSE "return")
    /\ UNCHANGED <<liveVars, now, workerFrame>>

\* Lines 207-220: chrome.notifications.create; a rejected promise is taken
\* by its own .catch, a synchronous throw by the try around the call.
Notify ==
  \E fail \in BOOLEAN :
    /\ unit.pc = "as_notify"
    /\ Proceed(unit, "as_notify", fail, "return")
    /\ UNCHANGED <<liveVars, now, sessions, workerFrame>>

NextBackground ==
  \/ TimerFires \/ WindowClosed \/ CleanupCalled
  \/ ReadSettings \/ ListenerGetAll
  \/ InlineGetAll \/ InlineGroupGet \/ InlineStoredGet \/ InlineStoredSet \/ InlineReturn
  \/ MaxGet \/ WorkerCleanupGet \/ WorkerCleanupSet \/ Notify

SpecBackground == InitBackground /\ [][NextBackground]_vars

BackgroundOps == {"autosave", "recovery", "cleanup"}

\* The try blocks of saveCurrentSessionInline.
InlineBlocks == {"si_outer", "si_window", "si_tab", "si_group", "si_storage"}

\* C23: background operations never propagate a failure: autoSaveSession,
\* the window-removed handler, saveCurrentSessionInline and
\* cleanupRecoverySessionsInline complete without throwing for every
\* combination of failing adapter and storage calls (a rejection inside
\* saveCurrentSessionInline never reaches a catch of its caller), and the
\* auto-save timer stays armed afterwards.
C23_NeverPropagates ==
  /\ ret.op \in BackgroundOps => ~ret.threw
  /\ \A site \in unit.failed :
       InSaveInline(site) => unit.caught \cap InlineBlocks # {}
  /\ \A b \in unit.caught :
       b \in {"as_outer", "wr_outer", "wr_save"}
         => \E site \in unit.failed : ~InSaveInline(site) /\ b \in Range(TryBlocks[site])
  /\ unit.armed

\* The timer fires a second time after an auto-save in which some call
\* rejected.
C23_Witness ==
  /\ unit.pc = "as_settings" /\ unit.fires = 2
  /\ ret.op = "autosave" /\ ~ret.clean

(***************************************************************************)
(* One capture pass of saveCurrentSession with group fetches that reject   *)
(* or resolve call by call.                                                *)
(***************************************************************************)
InitPass ==
  /\ \E a \in CaptureArrangements : \E first \in 0..1 :
       /\ UsedGroups(a) = {} => first = 0
       /\ InitLive(a, first)
  /\ otherBytes = 0
  /\ now = 1
  /\ sessions = <<>>
  /\ undoHistory = <<>>
  /\ pushed = <<>>
  /\ calls = <<>>
  /\ ret = Outcome("none", FALSE, NoError, "", <<>>, 0, 0, TRUE, FALSE)
  /\ rs = RsIdle
  /\ up = UndoIdle
  /\ ub = UndoIdle
  /\ ListIdle
  /\ unit = [pc |-> "call", failingAt |-> {}, fetched |-> <<>>]

\* saveCurrentSession(sessionName), lines 48-163, no call failing but the
\* chrome.tabGroups.get calls made at the tabs in failingAt.
SavePass ==
  \E failingAt \in SUBSET {tabs[i].id : i \in 1..Len(tabs)} :
    /\ unit.pc = "call"
    /\ LET ordered == Flatten([i \in 1..Len(wins) |-> TabsOf(tabs, wins[i])])
           collected == PopupCollectAt(ordered, groups, failingAt, <<>>, <<>>)
           sessionData == [PopupCapture(ManualName, now, wins, tabs, groups, {})
                             EXCEPT !.groups = collected.groups]
           raised == SaveRaised(sessionData, "none")
       IN /\ sessions' = IF raised = NoError THEN Append(sessions, sessionData) ELSE sessions
          /\ ret' = Outcome("save", raised # NoError, SaveCatch(raised),
                            IF raised = NoError THEN sessionData.id ELSE "", sessions,
                            TextBytes(sessionData), STORAGE_QUOTA - BytesInUse,
                            failingAt = {}, raised = NoError)
          /\ unit' = [pc |-> "done", failingAt |-> failingAt, fetched |-> collected.fetched]
    /\ UNCHANGED <<liveVars, now, otherBytes, lp, ledger, calls, rs, undoVars>>

NextPass == SavePass

SpecPass == InitPass /\ [][NextPass]_vars

Occurrences(s, x) == Cardinality({i \in 1..Len(s) : s[i] = x})

\* C24: during one saveCurrentSession pass the metadata of each distinct
\* live group is fetched (chrome.tabGroups.get) at most once, however many
\* member tabs the group has and whether or not the fetch succeeds.
C24_FetchedOnce ==
  unit.pc = "done" => \A g \in groups : Occurrences(unit.fetched, g.id) <= 1

PassSaved == unit.pc = "done" /\ ret.op = "save" /\ ret.wrote

\* The TabRecords of snapshot s in capture order: window by window.
TabRecords(s) == Flatten([i \in 1..Len(s.windows) |-> s.windows[i].tabs])

\* The urls of the TabRecords recorded as members of the group with id g.
RecordedMemberUrls(s, g) ==
  LET members == SelectSeq(TabRecords(s), LAMBDA t : t.groupId = <<g>>)
  IN [i \in 1..Len(members) |-> members[i].url]

\* C25: in every snapshot produced by saveCurrentSession, the tabUrls of
\* every GroupRecord g is exactly the sequence of urls of the captured
\* TabRecords whose originalGroupId equals g.originalId, in capture order,
\* also when a metadata fetch failed for an earlier member and succeeded for
\* a later one.
C25_MembersComplete ==
  PassSaved =>
    \A k \in 1..Len(Last(sessions).groups) :
      Last(sessions).groups[k].tabUrls
        = RecordedMemberUrls(Last(sessions), Last(sessions).groups[k].id)

\* The live tabs of window w that saveCurrentSession records.
EligibleTabs(w) == SelectSeq(TabsOf(tabs, w), LAMBDA t : ~IsUnrestorable(t.url))

\* The live groups with an eligible member for which no fetch was rejected.
FetchedGroups ==
  {g \in groups :
     /\ \E i \in 1..Len(tabs) : tabs[i].groupId = g.id /\ ~IsUnrestorable(tabs[i].url)
     /\ \A i \in 1..Len(tabs) : tabs[i].groupId = g.id => tabs[i].id \notin unit.failingAt}

\* C26: a failure reading one group's metadata never aborts
\* saveCurrentSession: the capture completes, every eligible tab, the
\* members of that group included, is recorded in the WindowRecord of its
\* window, the groups whose fetch did not fail are recorded with all their
\* members, and the snapshot is stored.
C26_FetchFailureIsolated ==
  unit.pc = "done" =>
    /\ ret.op = "save" /\ ~ret.threw /\ ret.wrote
    /\ sessions = Append(ret.before, Last(sessions))
    /\ \A i \in 1..Len(wins) :
         EligibleTabs(wins[i]) # <<>> =>
           \E k \in 1..Len(Last(sessions).windows) :
             LET windowData == Last(sessions).windows[k]
             IN /\ windowData.id = wins[i]
                /\ Len(windowData.tabs) = Len(EligibleTabs(wins[i]))
                /\ \A j \in 1..Len(windowData.tabs) :
                     /\ windowData.tabs[j].url = EligibleTabs(wins[i])[j].url
                     /\ windowData.tabs[j].groupId
                          = (IF EligibleTabs(wins[i])[j].groupId = TAB_ID_NONE THEN <<>>
                             ELSE <<EligibleTabs(wins[i])[j].groupId>>)
    /\ \A g \in FetchedGroups :
         \E k \in 1..Len(Last(sessions).groups) :
           /\ Last(sessions).groups[k].id = g.id
           /\ Last(sessions).groups[k].tabUrls = RecordedMemberUrls(Last(sessions), g.id)

\* Two live groups; the fetch of the first one's metadata is rejected, the
\* second group is recorded, and so are the tabs of both.
C26_Witness ==
  /\ unit.pc = "done" /\ ret.wrote
  /\ Cardinality(groups) = 2
  /\ Cardinality(FetchedGroups) = 1
  /\ Len(Last(sessions).groups) = 1
  /\ Len(TabRecords(Last(sessions))) = 2

(***************************************************************************)
(* waitForTabs(windowId, expectedCount), lines 220-264, poll by poll.  The *)
(* browser is free in what each chrome.tabs.query shows: any number of     *)
(* tabs, any number of them with a url or pendingUrl, or a rejection.      *)
(***************************************************************************)
MAX_WAIT == 10000
POLL_INTERVAL == 200
STABLE_CHECKS == 3

MaxObserved == 2
MaxExpected == 2

\* What one query shows: `len` tabs, `urls` of them with a url or pendingUrl.
Observations == {o \in [len : 0..MaxObserved, urls : 0..MaxObserved] : o.urls <= o.len}
NoTabs == [len |-> 0, urls |-> 0]

\* Mutant: the tabs' urls are not looked at.
IsReadyByCount(observed, expectedCount) == observed.len >= expectedCount

\* Lines 231-237.
IsReady(observed, expectedCount) ==
  observed.len >= expectedCount /\ observed.urls >= expectedCount

\* Mutant: the loop does not wait between two polls.
SleptUntilNever(clock, delay) == clock

\* Line 251: the timer of the pause fires `delay` ms later, never sooner than
\* asked.
SleptUntil(clock, delay) == clock + delay

\* Line 226: the loop condition.
WithinMaxWait(clock, startTime) == clock - startTime < MAX_WAIT

\* `recent`: the tab counts the last polls of the loop showed, newest last;
\* `polls`: the polls of the loop; `after`: the queries made once MAX_WAIT
\* had elapsed; `exit`: the statement that returned.
WaitStart(expectedCount) ==
  [pc |-> "poll", expectedCount |-> expectedCount, startTime |-> now,
   lastTabCount |-> 0, stableCount |-> 0, polls |-> 0, after |-> 0,
   recent |-> <<>>, broke |-> FALSE,
   result |-> NoTabs, exit |-> "none", returnedAt |-> 0]

InitWait == \E expectedCount \in 1..MaxExpected : UnitInit(WaitStart(expectedCount))

waitFrame == <<liveVars, sessions, otherBytes, lp, ledger, calls, ret, rs, undoVars>>

WaitReturned(u, tabList, exit) ==
  [u EXCEPT !.pc = "done", !.result = tabList, !.exit = exit, !.returnedAt = now]

\* One turn of the loop, lines 226-255.
Poll ==
  \E observed \in Observations : \E rejects \in BOOLEAN :
  \E delay \in {POLL_INTERVAL, 2 * POLL_INTERVAL} :
    /\ unit.pc = "poll"
    /\ WithinMaxWait(now, unit.startTime)
    /\ LET u == [unit EXCEPT !.polls = @ + 1]
           seen == [u EXCEPT !.recent = LastN(Append(@, observed.len), STABLE_CHECKS)]
           stable == [seen EXCEPT !.stableCount = @ + 1]
           moved == [seen EXCEPT !.stableCount = 0, !.lastTabCount = observed.len]
       IN IF rejects
          THEN unit' = [u EXCEPT !.pc = "final", !.broke = TRUE] /\ now' = now
          ELSE IF IsReady(observed, unit.expectedCount)
          THEN unit' = WaitReturned(seen, observed, "ready") /\ now' = now
          ELSE IF observed.len = unit.lastTabCount
          THEN IF stable.stableCount >= STABLE_CHECKS /\ observed.len > 0
               THEN unit' = WaitReturned(stable, observed, "stable") /\ now' = now
               ELSE unit' = stable /\ now' = SleptUntil(now, delay)
          ELSE unit' = moved /\ now' = SleptUntil(now, delay)
    /\ UNCHANGED waitFrame

\* The loop condition fails: the maximum wait has elapsed.
Expire ==
  /\ unit.pc = "poll"
  /\ ~WithinMaxWait(now, unit.startTime)
  /\ unit' = [unit EXCEPT !.pc = "final"]
  /\ UNCHANGED <<now, waitFrame>>

\* Lines 258-262: whatever tabs there are; [] when this query rejects.
FinalQuery ==
  \E observed \in Observations : \E rejects \in BOOLEAN :
    /\ unit.pc = "final"
    /\ LET u == [unit EXCEPT !.after = @ + (IF WithinMaxWait(now, unit.startTime) THEN 0 ELSE 1)]
       IN unit' = IF rejects THEN WaitReturned(u, NoTabs, "catch")
                  ELSE WaitReturned(u, observed, "final")
    /\ UNCHANGED <<now, waitFrame>>

NextWait == Poll \/ Expire \/ FinalQuery

\* The event loop runs a continuation whose awaited call has settled.
SpecWait == InitWait /\ [][NextWait]_vars /\ WF_vars(NextWait)

\* C27: the convergence wait always terminates: whatever the live tab list
\* does (never reaching the expected count, changing on every poll, staying
\* empty, the query failing), waitForTabs returns a tab list, possibly
\* empty, after at most MAX_WAIT / POLL_INTERVAL polls of its loop and no
\* later than the first query after the maximum wait has elapsed.
C27_WaitTerminates ==
  /\ [](unit.polls * POLL_INTERVAL <= MAX_WAIT /\ unit.after <= 1)
  /\ [](unit.pc = "done" /\ unit.after = 1 => unit.exit \in {"final", "catch"})
  /\ <>(unit.pc = "done")

\* The window stays empty for the whole wait: fifty polls, then the query
\* after the maximum wait returns the empty list.
C27_Witness ==
  /\ unit.pc = "done" /\ unit.exit = "final"
  /\ unit.polls = MAX_WAIT \div POLL_INTERVAL
  /\ unit.result = NoTabs
  /\ unit.after = 1

\* waitForTabs has returned before the maximum wait elapsed.
ReturnedEarly ==
  unit.pc = "done" /\ unit.returnedAt - unit.startTime < MAX_WAIT

\* The last three polls of the loop showed the same number of tabs.
ThreeAlike ==
  /\ Len(unit.recent) = STABLE_CHECKS
  /\ \A i \in 1..Len(unit.recent) : unit.recent[i] = unit.recent[1]

MaxFound == 3

UrlAPlain == [scheme |-> "http", rest |-> "mail.x.com/"]
FindUrls == {UrlA, UrlAPlain, UrlB}

\* A tab as chrome.tabs.query returns it: url is '' until the navigation
\* commits, pendingUrl is absent once it has.
QueriedTabs == [url : FindUrls \cup {NoUrl}, pendingUrl : FindUrls \cup {NoUrl}]

InitFind ==
  \E n \in 0..MaxFound : \E list \in [1..n -> QueriedTabs] : \E targetUrl \in FindUrls :
    UnitInit([pc |-> "call", list |-> list, targetUrl |-> targetUrl, found |-> 0])

Find ==
  /\ unit.pc = "call"
  /\ unit' = [unit EXCEPT !.pc = "done", !.found = findTabByUrl(unit.list, unit.targetUrl)]
  /\ UNCHANGED unitFrame

NextFind == Find

SpecFind == InitFind /\ [][NextFind]_vars

\* The positions of the list at which each rule of the chain matches.
ExactAt == {i \in 1..Len(unit.list) : unit.list[i].url = unit.targetUrl}
PendingAt == {i \in 1..Len(unit.list) : unit.list[i].pendingUrl = unit.targetUrl}
\* hostname + path + query of a url: the url without its scheme.
SchemeStripped(u) == IF u = UrlAPlain THEN "mail.x.com/" ELSE
                     IF u = UrlA THEN "mail.x.com/" ELSE
                     IF u = UrlB THEN "docs.x.com/" ELSE ""
NormalisedAt ==
  {i \in 1..Len(unit.list) :
     SchemeStripped(IF unit.list[i].url # NoUrl THEN unit.list[i].url
                    ELSE unit.list[i].pendingUrl) = SchemeStripped(unit.targetUrl)}

Least(S) == CHOOSE i \in S : \A j \in S : i <= j

\* C29: findTabByUrl returns the first tab whose url equals the target if
\* there is one; otherwise the first tab whose pendingUrl equals the target;
\* otherwise the first tab whose normalised hostname+path+query (of url,
\* else pendingUrl) equals the target's normalised form; otherwise null.  In
\* particular a target matches a tab whose pendingUrl equals it when no tab
\* has a settled url.
C29_Priority ==
  unit.pc = "done" =>
    /\ unit.found =
         (IF ExactAt # {} THEN Least(ExactAt)
          ELSE IF PendingAt # {} THEN Least(PendingAt)
          ELSE IF NormalisedAt # {} THEN Least(NormalisedAt)
          ELSE 0)
    /\ (\A i \in 1..Len(unit.list) : unit.list[i].url = NoUrl) /\ PendingAt # {}
         => unit.found # 0 /\ unit.list[unit.found].pendingUrl = unit.targetUrl

\* Three tabs: the first matches the target after normalisation only, the
\* second by its pendingUrl, the third by its url; the third is returned.
C29_Witness ==
  /\ unit.pc = "done" /\ Len(unit.list) = 3 /\ unit.found = 3
  /\ 1 \in NormalisedAt /\ 2 \in PendingAt /\ ExactAt = {3}

(***************************************************************************)
(* Order of the calls of restoreSession within one window.                 *)
(***************************************************************************)
\* The calls issued for restored window w: those after its createWindow
\* call and before the next createWindow call.
CallsFor(w) ==
  LET from == FindIndex(calls, LAMBDA c : c.op = "createWindow" /\ c.arg = w)
      later == {i \in (from + 1)..Len(calls) : calls[i].op = "createWindow"}
      to == IF later = {} THEN Len(calls) ELSE Least(later) - 1
  IN SubSeq(calls, from + 1, to)

\* restoreSession left the loop in the middle of its last window: the
\* re-query after pinning rejected, or a GroupRecord could not be walked.
LastWindowCutShort ==
  /\ rs.pc = "idle" /\ ret.op = "restore" /\ ret.threw
  /\ calls # <<>> /\ ~(Last(calls).op = "createWindow" /\ ~Last(calls).ok)

WindowFinished(j) == j < Len(RestoredSeq) \/ ~LastWindowCutShort

GroupRecordsResolving(w) ==
  {k \in 1..Len(rs.session.groups) : Resolved(k, w) # {}}

\* C30: within each restored window every pin call precedes every
\* group-creation call and the activate call, and groups and the active tab
\* are resolved against the tab list queried after the last pin call, never
\* against the list the convergence wait returned: a group call is made for
\* exactly the GroupRecords that resolve to unpinned tabs of the re-queried
\* list, an activate call exactly when an active TabRecord resolves in it.
C30_PinFirst ==
  rs.count > 0 =>
    \A j \in 1..Len(RestoredSeq) :
      LET w == RestoredSeq[j]
          mine == CallsFor(w)
          recorded == rs.session.windows[RestorableRecords[j]].tabs
      IN /\ \A a, b \in 1..Len(mine) :
              mine[a].op \in {"group", "updateGroup", "activate"} /\ mine[b].op = "pin"
                => b < a
         /\ WindowFinished(j) =>
              /\ Len(SelectSeq(mine, LAMBDA c : c.op = "group"))
                   = Cardinality(GroupRecordsResolving(w))
              /\ Len(SelectSeq(mine, LAMBDA c : c.op = "activate"))
                   = (IF FirstActive(recorded, w) # 0 THEN 1 ELSE 0)

\* A restored window with a pinned tab and a grouped, active one: the pin
\* call comes first, then the group is created, then the tab is activated.
C30_Witness ==
  /\ RestoreDone
  /\ \E j \in 1..Len(RestoredSeq) :
       LET mine == CallsFor(RestoredSeq[j])
       IN \E a, b, c \in 1..Len(mine) :
            /\ a < b /\ b < c
            /\ mine[a].op = "pin" /\ mine[b].op = "group" /\ mine[c].op = "activate"

(***************************************************************************)
(* Pinned tabs and group resolution on restore.                            *)
(***************************************************************************)
UnpinnedTabsOf(w) == SelectSeq(TabsOf(tabs, w), LAMBDA t : ~t.pinned)

\* C31: after a restore, no pinned tab of a restored window is in a group,
\* and every recorded tabUrls entry that the matching chain resolves among
\* the unpinned tabs of a restored window has that tab in a group, also when
\* a pinned tab of the window matches the same URL.
C31_PinnedExcluded ==
  RestoreDone =>
    \A w \in RestoredWindows :
      /\ \A t \in Range(TabsOf(tabs, w)) : t.pinned => t.groupId = TAB_ID_NONE
      /\ \A k \in 1..Len(rs.session.groups) :
           \A u \in Range(rs.session.groups[k].tabUrls) :
             LET i == findTabByUrl(UnpinnedTabsOf(w), u)
             IN i # 0 => UnpinnedTabsOf(w)[i].groupId # TAB_ID_NONE

(***************************************************************************)
(* WindowRecords without a restorable url.                                 *)
(***************************************************************************)
RestorableUrls(windowData) ==
  SelectSeq([i \in 1..Len(windowData.tabs) |-> windowData.tabs[i].url],
            LAMBDA u : ~IsUnrestorable(u))

\* The WindowRecords the loop of restoreSession has gone through.
RecordsWalked ==
  IF rs.pc = "windows" THEN rs.idx - 1 ELSE Len(rs.session.windows)

\* restoreSession threw from inside its loop over the WindowRecords.
ThrewInLoop ==
  /\ rs.pc = "idle" /\ ret.op = "restore" /\ ret.threw
  /\ ret.msg = RestoreCatch(ErrAdapter)

WindowOpenedFor(j, i) ==
  /\ TabsOf(tabs, RestoredSeq[j]) # <<>>
  /\ UrlOrPending(TabsOf(tabs, RestoredSeq[j])[1])
       = RestorableUrls(rs.session.windows[i])[1]
  /\ Cardinality({c \in 1..Len(calls) :
         calls[c].op = "createWindow" /\ calls[c].arg = RestoredSeq[j]}) = 1

\* C32: a WindowRecord with no restorable url is skipped without a live
\* window being created for it, and the WindowRecords before and after it
\* are still restored: as long as restoreSession has not thrown, the windows
\* it has created are, in order, one for each WindowRecord walked so far that
\* has a restorable url, opened on the first such url of its record; and
\* when it throws from its loop, it does so in a WindowRecord that has a
\* restorable url, the earlier ones being restored in the same way.
C32_EmptyWindowSkipped ==
  /\ (/\ rs.count > 0 /\ rs.session # NoSession
      /\ ~(rs.pc = "idle" /\ ret.op = "restore" /\ ret.threw)
      => LET walked == SelectSeq(RestorableRecords, LAMBDA i : i <= RecordsWalked)
         IN /\ Len(RestoredSeq) = Len(walked)
            /\ \A j \in 1..Len(walked) : WindowOpenedFor(j, walked[j]))
  /\ (ThrewInLoop
      => LET walked == SelectSeq(RestorableRecords, LAMBDA i : i <= rs.idx)
         IN /\ walked # <<>> /\ Last(walked) = rs.idx
            /\ Len(RestoredSeq) \in {Len(walked) - 1, Len(walked)}
            /\ \A j \in 1..Len(RestoredSeq) : WindowOpenedFor(j, walked[j]))

\* A restore of a snapshot whose first WindowRecord has no restorable url
\* and whose second has one: it returns with one window created.
C32_Witness ==
  /\ rs.pc = "idle" /\ rs.count > 0 /\ ret.op = "restore" /\ ~ret.threw
  /\ rs.session # NoSession
  /\ Len(rs.session.windows) >= 2
  /\ RestorableUrls(rs.session.windows[1]) = <<>>
  /\ Len(RestoredSeq) >= 1

(***************************************************************************)
(* The restore specification: a stored snapshot of a live arrangement of   *)
(* up to MaxWideTabs tabs, taken by the popup or by the service worker, is *)
(* restored; in each window any subset of the chrome.tabs.create calls may *)
(* reject.                                                                 *)
(***************************************************************************)
MaxWideTabs == 3

WideUrls == {UrlA, UrlB}

WideArrangements ==
  {a \in [1..MaxWideTabs -> {t \in TabSpec : t.url \in WideUrls}] : ValidArrangement(a)}

WideTabOf(a, i) ==
  [LiveTabOf(a, i) EXCEPT
     !.groupId = IF a[i].grp = 0 THEN TAB_ID_NONE ELSE MaxWins + MaxWideTabs + a[i].grp]

Capturers == {"popup", "inline"}

InitRestore ==
  \E a \in WideArrangements : \E by \in Capturers :
    /\ wins = [w \in 1..a[Len(a)].w |-> w]
    /\ tabs = [i \in 1..Len(a) |-> WideTabOf(a, i)]
    /\ groups = {[id |-> MaxWins + MaxWideTabs + g, title |-> AttrsOf(g, 0).title,
                  color |-> AttrsOf(g, 0).color, collapsed |-> AttrsOf(g, 0).collapsed] :
                 g \in UsedGroups(a)}
    /\ nextId = MaxWins + MaxWideTabs + MaxGroups + 1
    /\ sessions = <<IF by = "popup"
                    THEN PopupCapture(ManualName, 1, wins, tabs, groups, {})
                    ELSE InlineCapture(AutoSaveName(1), 1, wins, tabs, groups, {})>>
    /\ now = 2
    /\ otherBytes = 0
    /\ undoHistory = <<>>
    /\ pushed = <<>>
    /\ calls = <<>>
    /\ ret = Outcome("none", FALSE, NoError, "", <<>>, 0, 0, TRUE, FALSE)
    /\ rs = RsIdle
    /\ up = UndoIdle
    /\ ub = UndoIdle
    /\ ListIdle
    /\ unit = UnitIdle

TabCreateSubsets == {"tabCreate", "tabCreateEven", "tabCreateOdd"}

RestoreWindowAny == RestoreWindowOver(RestoreFailures \cup TabCreateSubsets)

NextRestore == RestoreBegin \/ RestoreWindowAny

SpecRestore == InitRestore /\ [][NextRestore]_vars

(***************************************************************************)
(* Tab-creation failures during a restore.                                 *)
(***************************************************************************)
TabCreateFailedIn(w) ==
  \E i \in 1..Len(CallsFor(w)) : CallsFor(w)[i].op = "createTab" /\ ~CallsFor(w)[i].ok

\* Every GroupRecord of the snapshot being restored lists its members by url.
GroupsByUrl == \A k \in 1..Len(rs.session.groups) : rs.session.groups[k].shape = "popup"

Replays(x, y) == x.pc = "popped" /\ y.pc = "idle"

\* The windows of the entry that the replay goes through: those still live,
\* none when chrome.windows.get or chrome.tabs.query rejects.
WindowsReplayed(x, y) ==
  IF y.fails \cap {"winGet", "query"} # {} THEN <<>>
  ELSE SelectSeq(x.entry[1].previousGroups.windows, LAMBDA ws : ws.id \in Range(wins))

\* The live tab that stands for a recorded member: the tab of the window
\* with the recorded id when there is one, otherwise the first tab of the
\* window showing the url recorded for that id; 0 when neither exists.
StandIn(ws, savedTabId) ==
  LET live == TabsOf(tabs, ws.id)
      sameId == {i \in 1..Len(live) : live[i].id = savedTabId}
      sameUrl == {i \in 1..Len(live) :
                    \E k \in 1..Len(ws.tabs) :
                      ws.tabs[k].id = savedTabId /\ live[i].url = ws.tabs[k].url}
  IN IF sameId # {} THEN savedTabId
     ELSE IF sameUrl # {} THEN live[Least(sameUrl)].id
     ELSE 0

StandIns(ws, k) == {StandIn(ws, id) : id \in Range(ws.groups[k].tabIds)} \ {0}

\* The last recorded group of the window that takes live tab `id`; 0 if none.
LastTaker(ws, id) ==
  LET takers == {k \in 1..Len(ws.groups) : id \in StandIns(ws, k)}
  IN IF takers = {} THEN 0 ELSE CHOOSE k \in takers : \A j \in takers : j <= k

\* The calls issued for one window: an ungroup call for each of its grouped
\* tabs, then the group and group-update calls.
RECURSIVE UngroupsLead(_, _, _)
UngroupsLead(acts, windows, groupFails) ==
  IF windows = <<>> THEN acts = <<>>
  ELSE
    LET ws == Head(windows)
        live == TabsOf(tabs, ws.id)
        nU == Cardinality({i \in 1..Len(live) : live[i].groupId # TAB_ID_NONE})
        made == {k \in 1..Len(ws.groups) : StandIns(ws, k) # {}}
        nG == Cardinality(made) * (IF groupFails THEN 1 ELSE 2)
    IN /\ Len(acts) >= nU + nG
       /\ \A i \in 1..nU :
            acts[i].op = "ungroup" /\ acts[i].arg \in {live[j].id : j \in 1..Len(live)}
       /\ \A i \in (nU + 1)..(nU + nG) : acts[i].op \in {"group", "updateGroup"}
       /\ UngroupsLead(SubSeq(acts, nU + nG + 1, Len(acts)), Tail(windows), groupFails)

ReplayIdsFirst(x, y) ==
  Replays(x, y) =>
    /\ UngroupsLead(y.acted, WindowsReplayed(x, y), "group" \in y.fails)
    /\ y.fails = {} =>
         \A n \in 1..Len(WindowsReplayed(x, y)) :
           LET ws == WindowsReplayed(x, y)[n]
               after == TabsOf(tabs', ws.id)
           IN \A i, j \in 1..Len(after) :
                /\ after[i].groupId # TAB_ID_NONE <=> LastTaker(ws, after[i].id) # 0
                /\ LastTaker(ws, after[i].id) # 0
                     => (after[i].groupId = after[j].groupId
                           <=> LastTaker(ws, after[i].id) = LastTaker(ws, after[j].id))

\* C34: in the replay of an undo entry each recorded member id of a recorded
\* group stands for the live tab of the window with that id when there is
\* one, and for a live tab with the recorded url only when no tab of the
\* window has the id; the tabs so found are the ones regrouped; and for each
\* window all ungroup calls come before the first group call.
C34_IdsFirst ==
  [][ReplayIdsFirst(up, up') /\ ReplayIdsFirst(ub, ub')]_vars

\* An undo after a grouped tab was closed and reopened: the recorded id is
\* gone, and the tab showing the recorded url has been grouped instead,
\* after the ungroup calls.
C34_Witness ==
  /\ Returned(up) /\ up.fails = {} /\ up.result = "true"
  /\ \E n \in 1..Len(up.entry[1].previousGroups.windows) :
       LET ws == up.entry[1].previousGroups.windows[n]
       IN \E k \in 1..Len(ws.groups) : \E id \in Range(ws.groups[k].tabIds) :
            /\ \A i \in 1..Len(tabs) : tabs[i].id # id
            /\ StandIn(ws, id) # 0
            /\ \E i \in 1..Len(tabs) :
                 tabs[i].id = StandIn(ws, id) /\ tabs[i].groupId # TAB_ID_NONE
  /\ \E a, b \in 1..Len(up.acted) :
       a < b /\ up.acted[a].op = "ungroup" /\ up.acted[b].op = "group"

(***************************************************************************)
(* Popup actions on the live group arrangement.                            *)
(* tabManager.js: groupTabsByDomain 12-43, createTabGroups 51-86,          *)
(* ungroupAllTabs 94-109, createTabGroupsByType 136-185, createEmptyGroup  *)
(* 193-226; tabClassifier.js: classifyTab 35-336, groupTabsByType 339-364; *)
(* the click handlers of sessionManager.js 1471-1647.                      *)
(***************************************************************************)
\* The ids the actions that push no undo entry may use up.
MaxFreshIds == 2

UrlDivider == [scheme |-> "chrome-extension", rest |-> "abcdef/divider/divider.html"]

\* new URL(tab.url).hostname.replace('www.', '')
DomainOf(u) ==
  IF u = UrlA THEN "mail.x.com" ELSE IF u = UrlB THEN "docs.x.com"
  ELSE IF u = UrlInternal THEN "settings" ELSE "abcdef"

\* classifyTab: internal pages are 'other' (lines 54-57); a host under x.com
\* falls through the development, ai-tools, education and video rules and
\* matches socialDomains (lines 207-212).
classifyTab(t) ==
  IF t.url = NoUrl \/ t.url.scheme \in {"chrome", "chrome-extension"} THEN "other"
  ELSE "social"

\* CATEGORY_CONFIG, lines 112-128.
CategoryConfig(category) ==
  IF category = "social" THEN [title |-> "Social", color |-> "pink"]
  ELSE [title |-> "Other", color |-> "green"]

\* const colors of createTabGroups, lines 54-56.
GroupColors == <<"grey", "blue", "red", "yellow", "green", "pink", "purple", "cyan">>

\* The object both grouping functions build: one entry per key in order of
\* first occurrence, holding the ids of the tabs with that key.
Grouped(list, Key(_)) ==
  LET firsts == SelectSeq([i \in 1..Len(list) |-> i],
                          LAMBDA i : \A j \in 1..(i - 1) : Key(list[j]) # Key(list[i]))
  IN [k \in 1..Len(firsts) |->
        LET same == SelectSeq(list, LAMBDA t : Key(t) = Key(list[firsts[k]]))
        IN [name |-> Key(list[firsts[k]]),
            tabIds |-> [n \in 1..Len(same) |-> same[n].id]]]

groupTabsByDomain(list) ==
  SelectSeq(Grouped(SelectSeq(list, LAMBDA t : ~IsUnrestorable(t.url)),
                    LAMBDA t : DomainOf(t.url)),
            LAMBDA entry : Len(entry.tabIds) > 1)

groupTabsByType(list) ==
  Grouped(SelectSeq(list, LAMBDA t : ~IsUnrestorable(t.url)), classifyTab)

\* One pass of the loop of createTabGroups / createTabGroupsByType: group the
\* tabs, then set title, color and collapsed; both calls share a try.
CreateOneGroup(e, entry, look, fail) ==
  LET g == e.nextId
      joined == GroupTabs(e.tabs, Range(entry.tabIds), g)
  IN IF fail = "group"
     THEN [e EXCEPT !.acted = Append(@, Call("group", 0, FALSE)), !.failed = @ + 1]
     ELSE IF fail = "groupUpdate"
     THEN [e EXCEPT !.tabs = joined,
                    !.groups = PruneGroups(@ \cup {FreshGroup(g)}, joined),
                    !.nextId = g + 1,
                    !.acted = @ \o <<Call("group", g, TRUE), Call("updateGroup", g, FALSE)>>,
                    !.failed = @ + 1]
     ELSE [e EXCEPT !.tabs = joined,
                    !.groups = PruneGroups(@ \cup {[id |-> g, title |-> look.title,
                                                    color |-> look.color,
                                                    collapsed |-> look.collapsed]}, joined),
                    !.nextId = g + 1,
                    !.acted = @ \o <<Call("group", g, TRUE), Call("updateGroup", g, TRUE)>>,
                    !.made = @ + 1]

RECURSIVE createTabGroups(_, _, _, _)
createTabGroups(e, groupedTabs, autoCollapseGroups, fail) ==
  IF groupedTabs = <<>> THEN e
  ELSE createTabGroups(
         CreateOneGroup(e, Head(groupedTabs),
                        [title |-> Head(groupedTabs).name,
                         color |-> GroupColors[(e.made % Len(GroupColors)) + 1],
                         collapsed |-> autoCollapseGroups], fail),
         Tail(groupedTabs), autoCollapseGroups, fail)

RECURSIVE createTabGroupsByType(_, _, _, _, _)
createTabGroupsByType(e, groupedTabs, autoCollapseGroups, skipSingleTabGroups, fail) ==
  IF groupedTabs = <<>> THEN e
  ELSE IF skipSingleTabGroups /\ Len(Head(groupedTabs).tabIds) <= 1
  THEN createTabGroupsByType(e, Tail(groupedTabs), autoCollapseGroups,
                             skipSingleTabGroups, fail)
  ELSE createTabGroupsByType(
         CreateOneGroup(e, Head(groupedTabs),
                        [title |-> CategoryConfig(Head(groupedTabs).name).title,
                         color |-> CategoryConfig(Head(groupedTabs).name).color,
                         collapsed |-> autoCollapseGroups], fail),
         Tail(groupedTabs), autoCollapseGroups, skipSingleTabGroups, fail)

GroupingFailures ==
  UndoPushFailures \cup {"query", "ungroup", "settingsGet", "group", "groupUpdate"}

\* The part both grouping handlers share: saveUndoState, ungroupAllTabs, the
\* query of the current window, then the creation of the groups.  A rejected
\* query or ungroup call ends the handler in its catch.
GroupingHandler(actionType, w, fail, Create(_, _)) ==
  LET after == ungroupAllTabs(w, fail)
      ungrouped == [tabs |-> after.tabs, groups |-> PruneGroups(groups, after.tabs),
                    nextId |-> nextId, acted |-> after.acted, made |-> 0, failed |-> 0]
      stopped == fail = "query" \/ (fail = "ungroup" /\ after.acted # <<>>)
                 \/ fail = "settingsGet"
      e == IF fail = "query" THEN [ungrouped EXCEPT !.tabs = tabs, !.groups = groups]
           ELSE IF stopped THEN ungrouped
           ELSE Create(ungrouped, TabsOf(ungrouped.tabs, w))
  IN /\ CanPush
     /\ undoHistory' = saveUndoState(actionType, fail)
     /\ pushed' = IF PopupPushStores(fail)
                   THEN Append(pushed, PopupUndoEntry(actionType, fail)) ELSE pushed
     /\ tabs' = e.tabs
     /\ groups' = e.groups
     /\ nextId' = e.nextId
     /\ calls' = e.acted
     /\ now' = now + 1
     /\ UNCHANGED <<wins, sessions, storeVars, ret, rs, up, ub>>

\* Click on "Group by domain", lines 1471-1500.
GroupByDomain ==
  \E w \in Range(wins) : \E fail \in GroupingFailures : \E autoCollapseGroups \in BOOLEAN :
    GroupingHandler("group-by-domain", w, fail,
                    LAMBDA e, list : createTabGroups(e, groupTabsByDomain(list),
                                                     autoCollapseGroups, fail))

\* Click on "Group by type", lines 1502-1537.
GroupByType ==
  \E w \in Range(wins) : \E fail \in GroupingFailures :
  \E autoCollapseGroups \in BOOLEAN : \E skipSingleTabGroups \in BOOLEAN :
    GroupingHandler("group-by-type", w, fail,
                    LAMBDA e, list : createTabGroupsByType(e, groupTabsByType(list),
                                                           autoCollapseGroups,
                                                           skipSingleTabGroups, fail))

\* createEmptyGroup, tabManager.js 193-226: the active tab of the window, or
\* the first ungrouped ordinary tab when the active one is grouped.
tabToGroup(list) ==
  LET active == FindIndex(list, LAMBDA t : t.active)
      ungrouped == FindIndex(list, LAMBDA t : /\ t.groupId = TAB_ID_NONE
                                              /\ t.url.scheme \notin {"chrome", "chrome-extension"})
  IN IF active = 0 THEN 0
     ELSE IF list[active].groupId # TAB_ID_NONE /\ ungrouped # 0 THEN ungrouped
     ELSE active

\* Click on "New group", lines 1575-1603: no undo entry is pushed.
NewGroup ==
  \E w \in Range(wins) : \E fail \in {"none", "group", "groupUpdate"} :
    LET list == TabsOf(tabs, w)
        i == tabToGroup(list)
        e == CreateOneGroup([tabs |-> tabs, groups |-> groups, nextId |-> nextId,
                             acted |-> <<>>, made |-> 0, failed |-> 0],
                            [name |-> "New Group", tabIds |-> <<list[i].id>>],
                            [title |-> "New Group", color |-> "grey", collapsed |-> FALSE],
                            fail)
    IN /\ NoUndoYet
       /\ i # 0
       /\ nextId + 1 <= FirstFreshId + MaxFreshIds
       /\ tabs' = e.tabs
       /\ groups' = e.groups
       /\ nextId' = e.nextId
       /\ calls' = e.acted
       /\ UNCHANGED <<wins, now, sessions, storeVars, ret, rs, undoVars>>

\* Click on "New divider", lines 1605-1647: a tab is created and put in a
\* collapsed group of its own; no undo entry is pushed.
NewDivider ==
  \E w \in Range(wins) : \E fail \in {"none", "group", "groupUpdate"} :
    LET dividerTab == NewTab(nextId, w, UrlDivider, TRUE, FALSE)
        e == CreateOneGroup([tabs |-> Append(tabs, dividerTab), groups |-> groups,
                             nextId |-> nextId + 1,
                             acted |-> <<Call("createTab", nextId, TRUE)>>,
                             made |-> 0, failed |-> 0],
                            [name |-> "divider", tabIds |-> <<nextId>>],
                            [title |-> "---", color |-> "purple", collapsed |-> TRUE],
                            fail)
    IN /\ NoUndoYet
       /\ nextId + 2 <= FirstFreshId + MaxFreshIds
       /\ tabs' = e.tabs
       /\ groups' = e.groups
       /\ nextId' = e.nextId
       /\ calls' = e.acted
       /\ UNCHANGED <<wins, now, sessions, storeVars, ret, rs, undoVars>>

\* The user opens a window on a page and may put its tab in a group, or
\* closes one of several windows.
OpenWindow ==
  \E u \in {UrlA, UrlB} : \E grouped \in BOOLEAN :
    LET opened == NewTab(nextId + 1, nextId, u, TRUE, TRUE)
        g == nextId + 2
    IN /\ NoUndoYet
       /\ Len(wins) <= MaxWins
       /\ nextId <= FirstFreshId + MaxFreshIds
       /\ wins' = Append(wins, nextId)
       /\ tabs' = Append(tabs, IF grouped THEN [opened EXCEPT !.groupId = g] ELSE opened)
       /\ groups' = IF grouped THEN groups \cup {FreshGroup(g)} ELSE groups
       /\ nextId' = nextId + 3
       /\ calls' = <<>>
       /\ UNCHANGED <<now, sessions, storeVars, ret, rs, undoVars>>

CloseWindow ==
  \E w \in Range(wins) :
    LET left == SelectSeq(tabs, LAMBDA t : t.windowId # w)
    IN /\ NoUndoYet
       /\ Len(wins) > 1
       /\ wins' = SelectSeq(wins, LAMBDA x : x # w)
       /\ tabs' = left
       /\ groups' = PruneGroups(groups, left)
       /\ calls' = <<>>
       /\ UNCHANGED <<nextId, now, sessions, storeVars, ret, rs, undoVars>>

\* The actions specification: popup actions on an empty undo stack, then one
\* undo, by the popup or by the service worker.
InitActions == InitStack({0}, UndoClockStart + MaxPushes - 1)

UndoGetAlone == \E side \in Sides : Other(side).count = 0 /\ UndoGet(side)

NextActions ==
  \/ UngroupAll
  \/ GroupByDomain
  \/ GroupByType
  \/ NewGroup
  \/ NewDivider
  \/ UndoGetAlone
  \/ \E side \in Sides : UndoPop(side)
  \/ \E side \in Sides : UndoReplay(side)

SpecActions == InitActions /\ [][NextActions]_vars

(***************************************************************************)
(* Recording before a popup action.                                        *)
(***************************************************************************)
\* A step of a popup action that changes the live group arrangement.
PopupActionMutates ==
  /\ up' = up /\ ub' = ub /\ wins' = wins
  /\ <<tabs, groups>>' # <<tabs, groups>>

\* C35: every popup action that changes the live group arrangement (group by
\* domain, group by type, ungroup all, new group, new divider) pushes an
\* UndoEntry that holds the arrangement as it was before the action's first
\* change.
C35_PreActionRecorded ==
  [][PopupActionMutates
       => /\ undoHistory' # <<>>
          /\ undoHistory' = pushBounded(undoHistory, Last(undoHistory'))
          /\ Last(undoHistory').previousGroups
               = captureCurrentGroups(wins, tabs, groups, {}, "popup")]_vars

(***************************************************************************)
(* Restoring what the service worker captured.                             *)
(***************************************************************************)
\* The snapshot being restored was written by saveCurrentSessionInline.
FromBackground ==
  /\ rs.session.windows # <<>>
  /\ \A i \in 1..Len(rs.session.windows) :
       \A t \in Range(rs.session.windows[i].tabs) : t.shape = "inline"

\* C36: a snapshot written by the service worker's capture that passes
\* validateSession and has a group and a restorable tab can be restored:
\* restoreSession, no call failing, returns without throwing and has
\* created a group.
C36_BackgroundRestorable ==
  /\ rs.pc = "idle" /\ rs.count > 0 /\ ret.op = "restore" /\ rs.clean /\ ret.clean
  /\ FromBackground /\ validateSession(rs.session)
  /\ rs.session.groups # <<>> /\ RestorableRecords # <<>>
  => /\ ~ret.threw
     /\ GroupCalls # <<>>

(***************************************************************************)
(* Undo round trip.                                                        *)
(***************************************************************************)
\* Every group a recorded tab was in is among the recorded groups: no
\* chrome.tabGroups.get was rejected while the entry was captured.
EntryWhole(entry) ==
  \A n \in 1..Len(entry.previousGroups.windows) :
    LET ws == entry.previousGroups.windows[n]
    IN \A k \in 1..Len(ws.tabs) :
         ws.tabs[k].groupId # <<>>
           => \E j \in 1..Len(ws.groups) : ws.groups[j].id = ws.tabs[k].groupId[1]

\* Every recorded window is live and holds the tabs recorded for it: none
\* was opened or closed since the capture.
SameTabsAsRecorded(entry) ==
  \A n \in 1..Len(entry.previousGroups.windows) :
    LET ws == entry.previousGroups.windows[n]
        live == TabsOf(tabs, ws.id)
    IN /\ ws.id \in Range(wins)
       /\ {live[i].id : i \in 1..Len(live)} = {ws.tabs[k].id : k \in 1..Len(ws.tabs)}

\* The arrangement `ts`, `gs` shows the recorded window as it was recorded.
AsRecorded(ws, ts, gs) ==
  LET live == TabsOf(ts, ws.id)
      rec(id) == ws.tabs[CHOOSE k \in 1..Len(ws.tabs) : ws.tabs[k].id = id]
  IN \A i \in 1..Len(live) :
       LET r == rec(live[i].id)
       IN /\ r.groupId = <<>> <=> live[i].groupId = TAB_ID_NONE
          /\ \A j \in 1..Len(live) :
               r.groupId # <<>>
                 => (live[j].groupId = live[i].groupId
                       <=> rec(live[j].id).groupId = r.groupId)
          /\ r.groupId # <<>> =>
               \E k \in 1..Len(ws.groups) :
                 /\ ws.groups[k].id = r.groupId[1]
                 /\ GroupOf(gs, live[i].groupId).title = ws.groups[k].title
                 /\ GroupOf(gs, live[i].groupId).color = ws.groups[k].color
                 /\ GroupOf(gs, live[i].groupId).collapsed = ws.groups[k].collapsed

RoundTrip(x, y) ==
  /\ Replays(x, y) /\ y.fails = {}
  /\ EntryWhole(x.entry[1]) /\ SameTabsAsRecorded(x.entry[1])
  => \A n \in 1..Len(x.entry[1].previousGroups.windows) :
       AsRecorded(x.entry[1].previousGroups.windows[n], tabs', groups')

InitFrame == InitStack({1}, UndoClockStart)

NextFrame ==
  \/ NewGroup
  \/ OpenWindow
  \/ CloseWindow
  \/ UndoGetAlone
  \/ \E side \in Sides : UndoPop(side)
  \/ \E side \in Sides : UndoReplay(side)

SpecFrame == InitFrame /\ [][NextFrame]_vars

\* The ids of the windows an entry lists.
Listed(entry) ==
  {entry.previousGroups.windows[n].id : n \in 1..Len(entry.previousGroups.windows)}

\* The replay leaves the tabs of unlisted windows and their groups as they
\* are, and every call it issues is on a tab of a listed window.
FrameKept(x, y) ==
  Replays(x, y) =>
    /\ Len(tabs') = Len(tabs)
    /\ \A i \in 1..Len(tabs) :
         tabs[i].windowId \notin Listed(x.entry[1]) =>
           /\ tabs'[i] = tabs[i]
           /\ tabs[i].groupId # TAB_ID_NONE
                => GroupOf(groups', tabs[i].groupId) = GroupOf(groups, tabs[i].groupId)
    /\ \A c \in Range(y.acted) :
         /\ c.op = "ungroup" =>
              \E i \in 1..Len(tabs) :
                tabs[i].id = c.arg /\ tabs[i].windowId \in Listed(x.entry[1])
         /\ c.op \in {"group", "updateGroup"} /\ c.arg # 0 =>
              /\ \A i \in 1..Len(tabs) : tabs[i].groupId # c.arg
              /\ \A i \in 1..Len(tabs') :
                   tabs'[i].groupId = c.arg => tabs'[i].windowId \in Listed(x.entry[1])

\* A listed window that is gone does not end the replay: with no call
\* rejected the undo succeeds, and each listed window that is live with the
\* tabs recorded for it is as recorded afterwards.
GoneSkipped(x, y) ==
  Replays(x, y) /\ y.fails = {} =>
    /\ ~y.threw
    /\ \A n \in 1..Len(x.entry[1].previousGroups.windows) :
         LET ws == x.entry[1].previousGroups.windows[n]
             live == TabsOf(tabs, ws.id)
         IN /\ ws.id \in Range(wins)
            /\ {live[i].id : i \in 1..Len(live)} = {ws.tabs[k].id : k \in 1..Len(ws.tabs)}
            => AsRecorded(ws, tabs', groups')

\* C38: the undo issues no ungroup, group or group-update call for a tab of
\* a live window that the popped entry does not list, and it skips listed
\* windows that no longer exist while still replaying the other listed
\* windows.
C38_UndoFrame ==
  [][/\ FrameKept(up, up') /\ FrameKept(ub, ub')
     /\ GoneSkipped(up, up') /\ GoneSkipped(ub, ub')]_vars

\* An undo of an entry listing two windows: the first has been closed, the
\* second has been put back as recorded by ungroup and group calls, and the
\* grouped tab of a window opened since is still in its group.
C38_Witness ==
  /\ Returned(up) /\ up.fails = {} /\ up.result = "true"
  /\ Len(up.entry[1].previousGroups.windows) = 2
  /\ up.entry[1].previousGroups.windows[1].id \notin Range(wins)
  /\ up.entry[1].previousGroups.windows[2].id \in Range(wins)
  /\ AsRecorded(up.entry[1].previousGroups.windows[2], tabs, groups)
  /\ \E a, b \in 1..Len(up.acted) :
       up.acted[a].op = "ungroup" /\ up.acted[b].op = "group"
  /\ \E i \in 1..Len(tabs) :
       /\ tabs[i].windowId \notin Listed(up.entry[1])
       /\ tabs[i].groupId # TAB_ID_NONE

(***************************************************************************)
(* Group records and the groups a restore creates.                         *)
(***************************************************************************)
\* C39: over a whole restoreSession call the groups created are no more
\* than the GroupRecords of the snapshot, and no live tab is passed to more
\* than one group-creation call.
C39_OncePerRecord ==
  RestoreDone =>
    /\ Len(GroupCalls) <= Len(rs.session.groups)
    /\ \A w \in RestoredWindows : \A k1, k2 \in 1..Len(rs.session.groups) :
         k1 # k2 => Resolved(k1, w) \cap Resolved(k2, w) = {}

(***************************************************************************)
(* The auto-save timer of the service worker, part_001 lines 144-258.      *)
(* setupAutoSaveTimer awaits one storage read and then clears and arms the *)
(* timer without another await; its invocations overlap at the read.       *)
(***************************************************************************)
MaxInvocations == 3

\* autoSaveEnabled and autoSaveInterval as stored: absent until the options
\* page saves them.
SettingsUnset == [enabled |-> "undefined", interval |-> 0]
SettingsChoices == [enabled : {"true", "false"}, interval : {1, 5}]

TimerIdle ==
  [pc |-> "worker", autoSaveInterval |-> 0, timers |-> {}, nextTimer |-> 1,
   stored |-> SettingsUnset, inbox |-> <<>>, flights |-> <<>>, invoked |-> 0,
   overlaps |-> 0]

InitTimer == UnitInit(TimerIdle)

\* Mutant: the variable is reset and the timer is left running.
ClearTimerKept(u) == [u EXCEPT !.autoSaveInterval = 0]

\* lines 155-158: if (autoSaveInterval) { clearInterval(...); ... = null }
ClearTimer(u) ==
  IF u.autoSaveInterval # 0
  THEN [u EXCEPT !.timers = {t \in @ : t.id # u.autoSaveInterval}, !.autoSaveInterval = 0]
  ELSE u

\* lines 161-171: unless disabled, setInterval(callback, minutes * 60 * 1000).
ArmTimer(u, seen) ==
  IF seen.enabled # "false"
  THEN [u EXCEPT !.timers = @ \cup {[id |-> u.nextTimer,
                                     minutes |-> IF seen.interval = 0 THEN 5
                                                 ELSE seen.interval]},
                 !.autoSaveInterval = u.nextTimer,
                 !.nextTimer = @ + 1]
  ELSE u

\* A call of setupAutoSaveTimer: up to its await, line 149.
Invoked(u, from) ==
  [u EXCEPT !.flights = Append(@, [from |-> from, pc |-> "asked", seen |-> SettingsUnset,
                                   rejected |-> FALSE]),
            !.invoked = @ + 1]

CanInvoke == unit.invoked + Len(unit.inbox) < MaxInvocations

\* chrome.runtime.onInstalled, lines 229-235.
OnInstalled ==
  /\ CanInvoke
  /\ unit' = Invoked(unit, "installed")
  /\ UNCHANGED unitFrame

\* chrome.runtime.onStartup, lines 237-243.
OnStartup ==
  /\ CanInvoke
  /\ unit' = Invoked(unit, "startup")
  /\ UNCHANGED unitFrame

\* The options page is opened and announces itself (options.js:171-173), or
\* its settings are saved and the update is announced (options.js:196-234);
\* a rejected write of the settings ends the handler before the message.
OptionsPage ==
  \E type \in {"setupAutoSave", "updateAutoSave", "other"} :
  \E chosen \in SettingsChoices : \E rejects \in BOOLEAN :
    /\ CanInvoke
    /\ unit' = IF type = "updateAutoSave"
               THEN IF rejects THEN unit
                    ELSE [unit EXCEPT !.stored = chosen, !.inbox = Append(@, type)]
               ELSE [unit EXCEPT !.inbox = Append(@, type)]
    /\ UNCHANGED unitFrame

\* chrome.runtime.onMessage, lines 246-258.
OnMessage ==
  /\ unit.inbox # <<>>
  /\ LET u == [unit EXCEPT !.inbox = Tail(@)]
     IN unit' = IF Head(unit.inbox) \in {"updateAutoSave", "setupAutoSave"}
                THEN Invoked(u, "message") ELSE u
  /\ UNCHANGED unitFrame

\* The storage read of an invocation is served, or rejected.
SettingsRead ==
  \E i \in 1..Len(unit.flights) : \E rejects \in BOOLEAN :
    /\ unit.flights[i].pc = "asked"
    /\ unit' = [unit EXCEPT !.flights[i].pc = "got",
                            !.flights[i].seen = unit.stored,
                            !.flights[i].rejected = rejects]
    /\ UNCHANGED unitFrame

\* The invocation goes on after its await, lines 154-176, in one turn of the
\* event loop: clear, arm; a rejected read goes to the catch.
TimerSetup ==
  \E i \in 1..Len(unit.flights) :
    LET f == unit.flights[i]
        rest == [unit EXCEPT !.flights = SubSeq(@, 1, i - 1) \o SubSeq(@, i + 1, Len(@)),
                             !.overlaps = @ + (IF Len(unit.flights) > 1 THEN 1 ELSE 0)]
    IN /\ f.pc = "got"
       /\ unit' = IF f.rejected THEN rest ELSE ArmTimer(ClearTimer(rest), f.seen)
       /\ UNCHANGED unitFrame

NextTimer ==
  OnInstalled \/ OnStartup \/ OptionsPage \/ OnMessage \/ SettingsRead \/ TimerSetup

SpecTimer == InitTimer /\ [][NextTimer]_vars

\* C40: at most one auto-save timer is live after any interleaving of
\* setupAutoSaveTimer invocations (install, startup, messages of the options
\* page), and autoSaveInterval is the only live timer, or null when there is
\* none.
C40_OneTimer ==
  unit.pc = "worker" =>
    /\ Cardinality(unit.timers) <= 1
    /\ unit.autoSaveInterval = 0 => unit.timers = {}
    /\ unit.autoSaveInterval # 0 =>
         {t.id : t \in unit.timers} = {unit.autoSaveInterval}

\* Three invocations were in flight together; each has armed a timer, the
\* last one is live and autoSaveInterval refers to it.
C40_Witness ==
  /\ unit.pc = "worker"
  /\ unit.flights = <<>> /\ unit.invoked = MaxInvocations
  /\ unit.overlaps >= 2
  /\ unit.nextTimer = MaxInvocations + 1
  /\ {t.id : t \in unit.timers} = {MaxInvocations}
  /\ unit.autoSaveInterval = MaxInvocations

====
